---------------------------- MODULE Spec2Model ----------------------------
(***************************************************************************)
(* Compliance alerting and distribution subsystem of                       *)
(* OpenWorld-SpecialtyChemicals.                                           *)
(*                                                                         *)
(*   SpecRules  rule engine: rule_engine.evaluate_permit, rules.check_permit*)
(*   SpecRL     rate limiters of the dashboard (HTTP middleware, WebSocket) *)
(*   SpecAgent  advice client: agents.openai_agent.OpenAIAdviceAgent        *)
(*   SpecHub    streaming hub: dashboard.build_app, /ws/effluent, channel   *)
(*                                                                         *)
(* Concentrations, limits and times are integers.  A mean is kept exact as *)
(* a fraction [num, den]; comparisons cross-multiply.                      *)
(***************************************************************************)
EXTENDS Integers, Sequences, FiniteSets, TLC

VARIABLES
    permit,      \* rules: the permit document handed to the rule engine
    df,          \* rules: the tidy readings, a sequence of [time, species, concentration]
    alerts,      \* rules: the list returned by the rule engine
    rule_pc,     \* rules: "input", then the name of the function that produced alerts
    now,         \* time.time(), in clock ticks of half a second
    api_token,   \* OW_SC_API_TOKEN ("" when unset)
    rl_per_sec,  \* OW_SC_RL_PER_SEC
    ws_msgs_per_sec, \* OW_SC_WS_MSGS_PER_SEC
    rl_state,    \* _rl_state of the HTTP middleware: key -> [start, count]
    rl_win,      \* per connection: [start |-> _rl_win_start, cnt |-> _rl_win_cnt]
    rl_last,     \* the last limiter call: who, its verdict, the calls admitted in its window
    rl_admitted, \* per key: calls admitted since the key's window started
    rl_log,      \* every admitted call: its key and its time (observer)
    agent,       \* OpenAIAdviceAgent configuration: max_retries, breaker_threshold, cache_db
    failures,    \* self._failures: the failure times the breaker counts
    cache,       \* the "cache" table: key -> stored text
    adv,         \* the advise call in progress or last finished
    fail_log,    \* every failure time ever recorded (observer)
    succ,        \* payload -> the latest successful upstream response for it (observer)
    max_buffer,  \* hub: app.state.max_buffer
    buffer,      \* hub: app.state.buffer, a list of records
    connections, \* hub: app.state.connections, the dict in insertion order (a removed
                 \*      entry leaves a hole)
    conn_gauge,  \* hub: ws_active_connections
    conn_total,  \* hub: ws_connections_total
    msg_recv_total,      \* hub: ws_messages_received_total
    msg_broadcast_total, \* hub: ws_messages_broadcast_total
    ws_errors_total,     \* hub: ws_errors_total
    redis,       \* hub: app.state.redis, "none" or "up"
    channel,     \* hub: channel messages delivered to this instance, not yet consumed
    published,   \* hub: every message this instance published to the channel (observer)
    handler,     \* hub: per connection, the position of its websocket_effluent coroutine
    sock,        \* hub: per connection, the client's transport: "open", "closed", or
                 \*      "stalled" (open, but the client reads no more)
    outbox,      \* hub: per connection, the records sent to the client (observer)
    sub,         \* hub: the position of the _start_redis_subscriber task
    recv_log,    \* hub: every message received, its size and what the limiter says of it
                 \*      (observer)
    fcall,       \* a call of a function without state: its name, arguments and result
    subs,        \* stream: StreamBroadcaster._subs, the queues named by their connection
    squeue,      \* stream: per connection, the items in its asyncio.Queue
    shandler,    \* stream: per connection, the position of its ws_effluent coroutine
    ssock,       \* stream: per connection, the client's transport: "open" or "closed"
    spublished,  \* stream: the number of items published (observer)
    alerts_ws,   \* /ws/alerts: per connection, the position of its websocket_alerts
                 \*      coroutine and the messages it answered
    thr          \* callers sharing one OpenAIAdviceAgent: per thread, its position in
                 \*      _breaker_open or _record_failure and what it holds

ruleVars == <<permit, df, alerts, rule_pc>>
rlVars == <<api_token, rl_per_sec, ws_msgs_per_sec, rl_state, rl_win, rl_last, rl_admitted,
           rl_log>>

agentVars == <<agent, failures, cache, adv, fail_log, succ>>
hubVars == <<max_buffer, buffer, connections, conn_gauge, conn_total, msg_recv_total,
             msg_broadcast_total, ws_errors_total, redis, channel, published, handler,
             sock, outbox, sub, recv_log>>
fnVars == <<fcall>>
streamVars == <<subs, squeue, shandler, ssock, spublished, alerts_ws>>
threadVars == <<thr>>

vars == <<permit, df, alerts, rule_pc, now, api_token, rl_per_sec, ws_msgs_per_sec,
          rl_state, rl_win, rl_last, rl_admitted, rl_log, agent, failures, cache, adv,
          fail_log, succ,
          max_buffer, buffer, connections, conn_gauge, conn_total, msg_recv_total,
          msg_broadcast_total, ws_errors_total, redis, channel, published, handler,
          sock, outbox, sub, recv_log, fcall, subs, squeue, shandler, ssock, spublished,
          alerts_ws, thr>>


(***************************************************************************)
(* The state of each component before it is used.  A specification that    *)
(* exercises one component leaves the others in this state.                *)
(***************************************************************************)
Conns == {"c1", "c2", "c3"}

NoCall == [kind |-> "none", key |-> <<>>, status |-> 0, fresh |-> FALSE, count |-> 0]

RulesIdle == /\ permit = [key |-> "limits", map |-> <<>>, rolling_window |-> 1]
             /\ df = <<>>
             /\ alerts = <<>>
             /\ rule_pc = "off"

RlIdle == /\ api_token = ""
          /\ rl_per_sec = 0
          /\ ws_msgs_per_sec = 0
          /\ rl_state = <<>>
          /\ rl_win = [c \in Conns |-> [start |-> 0, cnt |-> 0]]
          /\ rl_last = NoCall
          /\ rl_admitted = <<>>
          /\ rl_log = <<>>

Absent == [t |-> "absent", v |-> ""]
NoResult == [actions |-> Absent, rationale |-> Absent]

NoAdvise == [pc |-> "idle", key |-> <<>>, attempt |-> 0, result |-> NoResult, how |-> "none",
             payload |-> <<>>, had |-> FALSE, expected |-> NoResult, open |-> FALSE, n |-> 0]

AgentIdle == /\ agent = [max_retries |-> 0, breaker_threshold |-> 0, cache_db |-> "none"]
             /\ failures = <<>>
             /\ cache = <<>>
             /\ adv = NoAdvise
             /\ fail_log = <<>>
             /\ succ = <<>>

NoConn == ""
NoMsg == [from |-> NoConn, n |-> 0]
NoHandler == [pc |-> "new", data |-> NoMsg, pos |-> 0, used |-> 0, target |-> NoConn,
              disconnected |-> <<>>]
NoSubscriber == [pc |-> "off", data |-> NoMsg, pos |-> 0, used |-> 0, target |-> NoConn,
                 disconnected |-> <<>>]

HubIdle == /\ max_buffer = 0
           /\ buffer = <<>>
           /\ connections = <<>>
           /\ conn_gauge = 0
           /\ conn_total = 0
           /\ msg_recv_total = 0
           /\ msg_broadcast_total = 0
           /\ ws_errors_total = 0
           /\ redis = "none"
           /\ channel = <<>>
           /\ published = <<>>
           /\ handler = [c \in Conns |-> NoHandler]
           /\ sock = [c \in Conns |-> "open"]
           /\ outbox = [c \in Conns |-> <<>>]
           /\ sub = NoSubscriber
           /\ recv_log = <<>>

FnIdle == fcall = [fn |-> "none", args |-> <<>>, result |-> <<>>]

NoStreamHandler == [pc |-> "new", item |-> 0]

NoAlertsHandler == [pc |-> "new", answered |-> 0]

Threads == {"t1", "t2"}
NoThread == [pc |-> "idle", kept |-> <<>>, stale |-> FALSE]

ThreadsIdle == thr = [t \in Threads |-> NoThread]

StreamIdle == /\ subs = {}
              /\ squeue = [c \in Conns |-> <<>>]
              /\ shandler = [c \in Conns |-> NoStreamHandler]
              /\ ssock = [c \in Conns |-> "open"]
              /\ spublished = 0
              /\ alerts_ws = [c \in Conns |-> NoAlertsHandler]

(***************************************************************************)
(* Generic helpers                                                         *)
(***************************************************************************)
RECURSIVE SumSeq(_)
SumSeq(s) == IF s = <<>> THEN 0 ELSE Head(s) + SumSeq(Tail(s))

RECURSIVE Flatten(_)
Flatten(ss) == IF ss = <<>> THEN <<>> ELSE Head(ss) \o Flatten(Tail(ss))

Last(s) == s[Len(s)]

\* Sequences over S of length 0..n
SeqUpTo(S, n) == UNION {[1..k -> S] : k \in 0..n}

(***************************************************************************)
(* Rule engine                                                             *)
(***************************************************************************)
MaxReadings == 3

Species == {"SO4", "As"}
Concentrations == 0..3
Windows == 1..3

\* Limit of each species in the permits that are tried.
LimitOf(sp) == IF sp = "SO4" THEN 2 ELSE 1

\* A limit map keeps the insertion order of a dict: a sequence of [sp, limit].
LimitMaps ==
    {<<[sp |-> a, limit |-> LimitOf(a)]>> : a \in Species} \cup
    {<<[sp |-> q[1], limit |-> LimitOf(q[1])], [sp |-> q[2], limit |-> LimitOf(q[2])]>> :
        q \in {r \in Species \X Species : r[1] # r[2]}}

\* A permit document carries its limits under "limits_mgL" or under "limits".
Permits ==
    {[key |-> k, map |-> m, rolling_window |-> w] :
        k \in {"limits_mgL", "limits"}, m \in LimitMaps, w \in Windows}

\* permit.get("limits_mgL", permit.get("limits", {}))
EvaluateLimits(p) == p.map

\* permit.get("limits", {})
CheckLimits(p) == IF p.key = "limits" THEN p.map ELSE <<>>

Frac(n, d) == [num |-> n, den |-> d]

\* a > limit for a fraction a and an integer limit
FracGt(a, limit) == a.num > limit * a.den

\* df[df["species"] == sp]
RowsOf(d, sp) == SelectSeq(d, LAMBDA r : r.species = sp)

ConcOf(rows) == [i \in 1..Len(rows) |-> rows[i].concentration]

\* np.convolve(x, np.ones(w), "valid") / w : the means of the full windows
ConvolveValid(x, w) ==
    [i \in 1..(Len(x) - w + 1) |-> Frac(SumSeq(SubSeq(x, i, i + w - 1)), w)]

\* Mutant of rolling_mean: the series is returned for every window.
rolling_mean_identity(x, w) == [i \in 1..Len(x) |-> Frac(x[i], 1)]

rolling_mean(x, w) ==
    IF w <= 1
    THEN [i \in 1..Len(x) |-> Frac(x[i], 1)]
    ELSE LET c == ConvolveValid(x, w)
         IN  [i \in 1..(w - 1) |-> c[1]] \o c

\* Mutant of _get_severity: the labels of the two middle tiers are exchanged.
_get_severity_swapped(value, limit) ==
    IF 4 * value.num >= 8 * limit * value.den THEN "critical"
    ELSE IF 4 * value.num >= 6 * limit * value.den THEN "watch"
    ELSE IF 4 * value.num >= 5 * limit * value.den THEN "warning"
    ELSE "info"

\* rule_engine._get_severity: tiers on ratio = value / limit (limit > 0)
_get_severity(value, limit) ==
    IF 4 * value.num >= 8 * limit * value.den THEN "critical"
    ELSE IF 4 * value.num >= 6 * limit * value.den THEN "warning"
    ELSE IF 4 * value.num >= 5 * limit * value.den THEN "watch"
    ELSE "info"

\* Mutant of _severity: the tiers of the other strategy.
_severity_ratioTiers(value, limit) == _get_severity(value, limit)

\* rules._severity: tiers on value against multiples of the limit
_severity(value, limit) ==
    IF 20 * value.num >= 25 * limit * value.den THEN "critical"
    ELSE IF 20 * value.num >= 21 * limit * value.den THEN "warning"
    ELSE IF value.num >= limit * value.den THEN "watch"
    ELSE "info"

Alert(t, sp, ty, msg, lvl, v, lim) ==
    [time |-> t, species |-> sp, type |-> ty, message |-> msg, level |-> lvl,
     value |-> v, limit |-> lim]

\* Mutant of EvalExceeds: the comparison lets a reading equal to the limit through.
EvalExceeds_orEqual(current_val, limit) == current_val >= limit

\* evaluate_permit: current_val > float(limit)
EvalExceeds(current_val, limit) == current_val > limit

\* evaluate_permit, exceedance check of one species (tidy branch)

EvalExceedance(rows, sp, limit) ==
    LET current_val == Last(ConcOf(rows))
    IN  IF EvalExceeds(current_val, limit)
        THEN <<Alert(Last(rows).time, sp, "exceedance", "concentration",
                     _get_severity(Frac(current_val, 1), limit),
                     Frac(current_val, 1), limit)>>
        ELSE <<>>

\* evaluate_permit, rolling mean trend check of one species (tidy branch)
EvalTrend(rows, sp, limit, window) ==
    LET concentrations == ConcOf(rows)
    IN  IF Len(concentrations) >= window
        THEN LET trend_val == Last(rolling_mean(concentrations, window))
             IN  IF FracGt(trend_val, limit)
                 THEN <<Alert(Last(rows).time, sp, "trend", "rolling mean",
                              _get_severity(trend_val, limit), trend_val, limit)>>
                 ELSE <<>>
        ELSE <<>>

evaluate_permit(d, p) ==
    LET limits == EvaluateLimits(p)
        window == p.rolling_window
        PerSpecies(e) ==
            LET rows == RowsOf(d, e.sp)
            IN  IF rows = <<>> THEN <<>>
                ELSE EvalExceedance(rows, e.sp, e.limit)
                     \o EvalTrend(rows, e.sp, e.limit, window)
    IN  Flatten([i \in 1..Len(limits) |-> PerSpecies(limits[i])])

\* rows["concentration"].rolling(window=window, min_periods=window).mean():
\* NaN until a full window is available, then the mean of the last `window`
NaN == Frac(0, 0)

\* Mutant of PandasRollingMean: min_periods left at 1, so a short series has a mean.
PandasRollingMean_minPeriods1(x, window) ==
    [i \in 1..Len(x) |->
        IF i >= window THEN Frac(SumSeq(SubSeq(x, i - window + 1, i)), window)
        ELSE Frac(SumSeq(SubSeq(x, 1, i)), i)]

PandasRollingMean(x, window) ==
    [i \in 1..Len(x) |->
        IF i >= window THEN Frac(SumSeq(SubSeq(x, i - window + 1, i)), window)
        ELSE NaN]

DropNa(rm) == SelectSeq(rm, LAMBDA v : v # NaN)

\* check_permit, instantaneous check of one species
CheckExceedance(rows, sp, limit) ==
    LET val == Last(rows).concentration
    IN  IF val > limit
        THEN <<Alert(Last(rows).time, sp, "none", "instantaneous",
                     _severity(Frac(val, 1), limit), Frac(val, 1), limit)>>
        ELSE <<>>

\* check_permit, rolling mean check of one species
CheckTrend(rows, sp, limit, window) ==
    LET rm == PandasRollingMean(ConcOf(rows), window)
    IN  IF Len(rm) > 0 /\ DropNa(rm) # <<>>
        THEN LET last_rm == Last(rm)
             IN  IF FracGt(last_rm, limit)
                 THEN <<Alert(Last(rows).time, sp, "none", "rolling mean",
                              _severity(last_rm, limit), last_rm, limit)>>
                 ELSE <<>>
        ELSE <<>>

check_permit(d, p) ==
    LET limits == CheckLimits(p)
        window == p.rolling_window
        PerSpecies(e) ==
            LET rows == RowsOf(d, e.sp)
            IN  IF rows = <<>> THEN <<>>
                ELSE CheckExceedance(rows, e.sp, e.limit)
                     \o CheckTrend(rows, e.sp, e.limit, window)
    IN  Flatten([i \in 1..Len(limits) |-> PerSpecies(limits[i])])

\* Readings in arrival order; the time of a reading is its row number.
Frames ==
    {[i \in 1..Len(s) |-> [time |-> i - 1, species |-> s[i][1], concentration |-> s[i][2]]] :
        s \in SeqUpTo(Species \X Concentrations, MaxReadings)}

InitRules == /\ permit \in Permits
             /\ df \in Frames
             /\ alerts = <<>>
             /\ rule_pc = "input"
             /\ now = 1
             /\ RlIdle
             /\ AgentIdle
             /\ HubIdle
             /\ FnIdle
             /\ StreamIdle
             /\ ThreadsIdle

EvaluatePermit == /\ rule_pc = "input"
                  /\ alerts' = evaluate_permit(df, permit)
                  /\ rule_pc' = "evaluate_permit"
                  /\ UNCHANGED <<permit, df, now, rlVars, agentVars, hubVars, fnVars,
                                 streamVars, threadVars>>

CheckPermit == /\ rule_pc = "input"
               /\ alerts' = check_permit(df, permit)
               /\ rule_pc' = "check_permit"
               /\ UNCHANGED <<permit, df, now, rlVars, agentVars, hubVars, fnVars,
                              streamVars, threadVars>>

NextRules == EvaluatePermit \/ CheckPermit

SpecRules == InitRules /\ [][NextRules]_vars

(***************************************************************************)
(* Claims on the rule engine (all under SpecRules)                         *)
(***************************************************************************)
\* The limit map the function that ran reads from the permit document.
ResolvedLimits ==
    IF rule_pc = "check_permit" THEN CheckLimits(permit) ELSE EvaluateLimits(permit)

\* The alerts of the instantaneous (exceedance) check for a species: typed
\* "exceedance" by evaluate_permit, worded "instantaneous" by check_permit.
ExceedanceAlerts(sp) ==
    SelectSeq(alerts, LAMBDA a : a.species = sp /\
                                 (a.type = "exceedance" \/ a.message = "instantaneous"))

TrendAlerts(sp) ==
    SelectSeq(alerts, LAMBDA a : a.species = sp /\ a.message = "rolling mean")

ReadingsOf(sp) == SelectSeq(df, LAMBDA r : r.species = sp)

\* C9: a species of the permit's limit map whose only reading is above the limit
\* gets exactly one exceedance alert, carrying that concentration and the permit
\* limit; a species whose most recent reading is at or below the limit gets none.
C9_SingleExceedance ==
    rule_pc \in {"evaluate_permit", "check_permit"} =>
        \A i \in 1..Len(ResolvedLimits) :
            LET e == ResolvedLimits[i]
                rs == ReadingsOf(e.sp)
                ex == ExceedanceAlerts(e.sp)
            IN  /\ (Len(rs) = 1 /\ rs[1].concentration > e.limit) =>
                       /\ Len(ex) = 1
                       /\ ex[1].value = Frac(rs[1].concentration, 1)
                       /\ ex[1].limit = e.limit
                /\ (rs # <<>> /\ rs[Len(rs)].concentration <= e.limit) => ex = <<>>

C9_Witness ==
    /\ rule_pc = "check_permit"
    /\ \E i \in 1..Len(ResolvedLimits) :
          LET rs == ReadingsOf(ResolvedLimits[i].sp)
          IN  /\ Len(rs) = 1
              /\ rs[1].concentration > ResolvedLimits[i].limit
              /\ Len(ExceedanceAlerts(ResolvedLimits[i].sp)) = 1

\* C10: with fewer than rolling_window readings of a species no trend alert is
\* emitted; with at least rolling_window readings one is emitted iff the mean of
\* the last rolling_window concentrations exceeds the limit, and it carries that mean.
C10_TrendIffWindowMean ==
    rule_pc \in {"evaluate_permit", "check_permit"} =>
        \A i \in 1..Len(ResolvedLimits) :
            LET e == ResolvedLimits[i]
                w == permit.rolling_window
                rs == ReadingsOf(e.sp)
                n == Len(rs)
                tr == TrendAlerts(e.sp)
                total == SumSeq([k \in 1..w |-> rs[n - w + k].concentration])
            IN  /\ n < w => tr = <<>>
                /\ n >= w =>
                       /\ (tr # <<>>) <=> (total > e.limit * w)
                       /\ tr # <<>> =>
                              /\ Len(tr) = 1
                              /\ tr[1].value.den > 0
                              /\ tr[1].value.num * w = total * tr[1].value.den

C10_Witness ==
    /\ rule_pc = "evaluate_permit"
    /\ permit.rolling_window = 3
    /\ \E i \in 1..Len(ResolvedLimits) :
          LET rs == ReadingsOf(ResolvedLimits[i].sp)
          IN  /\ Len(rs) = 3
              /\ rs[3].concentration <= ResolvedLimits[i].limit
              /\ Len(TrendAlerts(ResolvedLimits[i].sp)) = 1

(***************************************************************************)
(* Rate limiters: the HTTP middleware (add_security_headers) and the       *)
(* per-connection limiter of websocket_effluent                            *)
(***************************************************************************)
MaxTime == 3       \* the clock stops here
MaxLimit == 2      \* limits tried: 0..MaxLimit
MaxCalls == 4      \* limiter calls in one run
OneSecond == 2     \* the 1.0 s of the window test, in clock ticks

Clients == {"10.0.0.1"}
Paths == {"/api/status", "/api/streams", "/health"}
ApiPaths == {"/api/status", "/api/streams"}
Tokens == {"", "secret"}
AuthHeaders == {"", "Bearer secret", "Bearer wrong", "bearer secret"}

\* key = f"{ip}:{path}"
RlKey(ip, path) == <<ip, path>>

\* Mutant of BearerIs: only the prefix is tested.
BearerIs_prefixOnly(auth, token) == auth \in {"Bearer secret", "Bearer wrong"}

\* auth.startswith("Bearer ") and auth.split(" ", 1)[1] == token
BearerIs(auth, token) ==
    \/ auth = "Bearer secret" /\ token = "secret"
    \/ auth = "Bearer wrong" /\ token = "wrong"

\* Mutant of HttpOverLimit: the comparison is off by one.
HttpOverLimit_offByOne(count, per_sec) == count > per_sec + 1

\* add_security_headers: if count > per_sec -> 429
HttpOverLimit(count, per_sec) == count > per_sec

\* Mutant of HttpNewWindow: a window lasts half a second.
HttpNewWindow_halfSecond(st, key, t) ==
    \/ key \notin DOMAIN st
    \/ 2 * (t - st[key].start) >= OneSecond

\* add_security_headers: not state or now - float(state.get("start", 0.0)) >= 1.0
HttpNewWindow(st, key, t) ==
    \/ key \notin DOMAIN st
    \/ t - st[key].start >= OneSecond

\* The limiter of the middleware: the state after the call and whether it admits.
HttpRateLimit(st, key, t, per_sec) ==
    IF HttpNewWindow(st, key, t)
    THEN [state |-> [k \in DOMAIN st \cup {key} |->
                        IF k = key THEN [start |-> t, count |-> 1] ELSE st[k]],
          admit |-> TRUE]
    ELSE LET count == st[key].count + 1
         IN  [state |-> [st EXCEPT ![key].count = count],
              admit |-> ~HttpOverLimit(count, per_sec)]

\* websocket_effluent: the fixed window limiter of one connection.  start = 0
\* stands for an unset _rl_win_start (None): `not win` holds for both.
WsRateLimit(w, t, msgs_per_sec) ==
    LET fresh == w.start = 0 \/ t - w.start >= OneSecond
        start == IF fresh THEN t ELSE w.start
        cnt == (IF fresh THEN 0 ELSE w.cnt) + 1
    IN  [win |-> [start |-> start, cnt |-> cnt],
         admit |-> ~(cnt > msgs_per_sec)]

InitRL == /\ now = 1
          /\ api_token \in Tokens
          /\ rl_per_sec \in 0..MaxLimit
          /\ ws_msgs_per_sec = rl_per_sec
          /\ rl_state = <<>>
          /\ rl_win = [c \in Conns |-> [start |-> 0, cnt |-> 0]]
          /\ rl_last = NoCall
          /\ rl_admitted = <<>>
          /\ rl_log = <<>>
          /\ RulesIdle
          /\ AgentIdle
          /\ HubIdle
          /\ FnIdle
          /\ StreamIdle
          /\ ThreadsIdle

\* Ghost: the calls admitted for `key` since its window started.
Admitted(adm, key, fresh, admit) ==
    [k \in DOMAIN adm \cup {key} |->
        IF k = key
        THEN (IF fresh \/ key \notin DOMAIN adm THEN 0 ELSE adm[key])
             + (IF admit THEN 1 ELSE 0)
        ELSE adm[k]]

\* add_security_headers: one HTTP request through the middleware
HttpRequest(ip, path, auth) ==
    /\ rl_last.count < MaxCalls
    /\ IF api_token # "" /\ path \in ApiPaths /\ ~BearerIs(auth, api_token)
       THEN /\ rl_last' = [kind |-> "http", key |-> RlKey(ip, path), status |-> 401,
                           fresh |-> FALSE, count |-> rl_last.count + 1]
            /\ UNCHANGED <<rl_state, rl_admitted, rl_log>>
       ELSE IF path \in ApiPaths
       THEN LET key == RlKey(ip, path)
                r == HttpRateLimit(rl_state, key, now, rl_per_sec)
                fresh == HttpNewWindow(rl_state, key, now)
            IN  /\ rl_state' = r.state
                /\ rl_admitted' = Admitted(rl_admitted, key, fresh, r.admit)
                /\ rl_log' = IF r.admit THEN Append(rl_log, [key |-> key, t |-> now])
                              ELSE rl_log
                /\ rl_last' = [kind |-> "http", key |-> key,
                               status |-> IF r.admit THEN 200 ELSE 429,
                               fresh |-> fresh, count |-> rl_last.count + 1]
       ELSE /\ rl_last' = [kind |-> "http", key |-> RlKey(ip, path), status |-> 200,
                           fresh |-> FALSE, count |-> rl_last.count + 1]
            /\ UNCHANGED <<rl_state, rl_admitted, rl_log>>
    /\ UNCHANGED <<now, api_token, rl_per_sec, ws_msgs_per_sec, rl_win, ruleVars, agentVars,
                   hubVars, fnVars, streamVars, threadVars>>

\* websocket_effluent: the limiter step of one message of connection c, alone
WsLimiterCall(c) ==
    /\ rl_last.count < MaxCalls
    /\ LET r == WsRateLimit(rl_win[c], now, ws_msgs_per_sec)
           fresh == rl_win[c].start = 0 \/ now - rl_win[c].start >= OneSecond
       IN  /\ rl_win' = [rl_win EXCEPT ![c] = r.win]
           /\ rl_admitted' = Admitted(rl_admitted, <<c>>, fresh, r.admit)
           /\ rl_log' = IF r.admit THEN Append(rl_log, [key |-> <<c>>, t |-> now])
                         ELSE rl_log
           /\ rl_last' = [kind |-> "ws", key |-> <<c>>,
                          status |-> IF r.admit THEN 200 ELSE 429,
                          fresh |-> fresh, count |-> rl_last.count + 1]
    /\ UNCHANGED <<now, api_token, rl_per_sec, ws_msgs_per_sec, rl_state, ruleVars, agentVars,
                   hubVars, fnVars, streamVars, threadVars>>

\* time passes
TickRL == /\ now < MaxTime
          /\ now' = now + 1
          /\ UNCHANGED <<rlVars, ruleVars, agentVars, hubVars, fnVars, streamVars, threadVars>>

NextRL ==
    \/ \E ip \in Clients, path \in Paths, auth \in AuthHeaders : HttpRequest(ip, path, auth)
    \/ \E c \in {"c1", "c2"} : WsLimiterCall(c)
    \/ TickRL

SpecRL == InitRL /\ [][NextRL]_vars

(***************************************************************************)
(* Resilient advice client: agents/openai_agent.py, OpenAIAdviceAgent      *)
(***************************************************************************)
MaxRetries == 2        \* max_retries tried: 0..MaxRetries
MaxThreshold == 2      \* breaker_threshold tried: 1..MaxThreshold
MaxAdvise == 3         \* advise calls in one run
MaxIdle == 5           \* the clock is not advanced between calls beyond this
BreakerWindow == 2     \* breaker_window_sec, in clock ticks
BackoffBase == 1       \* backoff_base = 0.5 s, one clock tick

Model == "gpt-4o-mini"

ListOf(x) == [t |-> "list", v |-> x]
StrOf(x) == [t |-> "str", v |-> x]

\* Items a caller may pass in `alerts`.
RawAlerts ==
    {[isdict |-> TRUE, species |-> "SO4", numeric |-> TRUE, extra |-> e] : e \in BOOLEAN}
    \cup {[isdict |-> TRUE, species |-> sp, numeric |-> TRUE, extra |-> FALSE] :
            sp \in {"X64", "X65"}}
    \cup {[isdict |-> FALSE, species |-> "", numeric |-> FALSE, extra |-> FALSE],
          [isdict |-> TRUE, species |-> "SO4", numeric |-> FALSE, extra |-> FALSE]}

\* The alert lists handed to advise.
AdviseInputs ==
    {<<a>> : a \in {r \in RawAlerts : r.isdict /\ r.numeric /\ r.species # "X65"}}
    \cup {<<a, b>> : a \in {r \in RawAlerts : r.species = "SO4" /\ r.extra},
                     b \in {r \in RawAlerts : ~r.isdict}}
    \cup {<<a, b>> : a \in {r \in RawAlerts : r.isdict /\ ~r.numeric},
                     b \in {r \in RawAlerts : r.species = "X65"}}

\* str(...)[:64]: "X65" stands for a name of 65 characters whose first 64 are "X64"
Trunc64(sp) == IF sp = "X65" THEN "X64" ELSE sp

RECURSIVE SanitizeFrom(_, _)
SanitizeFrom(rest, arr) ==
    IF rest = <<>> THEN arr
    ELSE LET a == Head(rest)
         IN  IF ~a.isdict \/ ~a.numeric
             THEN SanitizeFrom(Tail(rest), arr)
             ELSE LET arr2 == Append(arr, [time |-> 1, species |-> Trunc64(a.species),
                                           value |-> 260, limit |-> 250])
                  IN  IF Len(arr2) >= 128 THEN arr2 ELSE SanitizeFrom(Tail(rest), arr2)

_sanitize_alerts(as) == SanitizeFrom(as, <<>>)

\* sha256 of the model and the key-sorted JSON of the payload, taken as injective
_cache_key(model, payload) == <<model, payload>>

\* json.dumps(value) / json.loads(row["value"]) of a response dict
JsonDumps(out) == <<"actions", out.actions, "rationale", out.rationale>>
JsonLoads(text) == [actions |-> text[2], rationale |-> text[4]]

\* Mutant of _cache_get: the lookup finds nothing.
_cache_get_miss(db, tbl, key) == [hit |-> FALSE, value |-> NoResult]

_cache_get(db, tbl, key) ==
    IF db # "ok" THEN [hit |-> FALSE, value |-> NoResult]
    ELSE IF key \in DOMAIN tbl THEN [hit |-> TRUE, value |-> JsonLoads(tbl[key])]
    ELSE [hit |-> FALSE, value |-> NoResult]

\* Mutant of _cache_set: the degraded response is stored in place of the value.
_cache_set_degraded(db, tbl, key, value) ==
    IF db # "ok" THEN tbl
    ELSE [k \in DOMAIN tbl \cup {key} |->
             IF k = key
             THEN JsonDumps([actions |-> ListOf("Check process"),
                             rationale |-> StrOf("Failed to retrieve advice.")])
             ELSE tbl[k]]

\* Mutant of _cache_set: the response is not stored.
_cache_set_dropped(db, tbl, key, value) == tbl

_cache_set(db, tbl, key, value) ==
    IF db # "ok" THEN tbl
    ELSE [k \in DOMAIN tbl \cup {key} |-> IF k = key THEN JsonDumps(value) ELSE tbl[k]]

\* Mutant of BreakerTripped: one failure more than the threshold is needed.
BreakerTripped_above(n, threshold) == n > threshold

\* _breaker_open: len(self._failures) >= self.breaker_threshold
BreakerTripped(n, threshold) == n >= threshold

\* _breaker_open: the pruned failure list and whether the breaker is open
_breaker_open(fs, t, threshold) ==
    LET kept == SelectSeq(fs, LAMBDA x : t - x <= BreakerWindow)
    IN  [failures |-> kept, open |-> BreakerTripped(Len(kept), threshold)]

\* Mutant of _record_failure: the failure is put on the list twice.
_record_failure_twice(fs, t) == Append(Append(fs, t), t)

\* _record_failure: self._failures.append(time.time())
_record_failure(fs, t) == Append(fs, t)

\* Mutant of AfterSuccess: a success closes the breaker (the list is cleared).
AfterSuccess_reset(fs) == <<>>

\* advise, from the response to `return out`: self._failures is not touched
AfterSuccess(fs) == fs

\* What the provider does on one attempt.
Upstream == {"A1R1", "A2R2", "no_content", "Astr_R1", "A1_Rnum", "json_list", "not_json",
             "raise"}

\* json.loads(resp.choices[0].message.content or "{}"): a dict, another JSON value,
\* or a JSONDecodeError
ParseContent(u) ==
    CASE u = "A1R1" -> [ok |-> TRUE, dict |-> TRUE,
                        out |-> [actions |-> ListOf("A1"), rationale |-> StrOf("R1")]]
      [] u = "A2R2" -> [ok |-> TRUE, dict |-> TRUE,
                        out |-> [actions |-> ListOf("A2"), rationale |-> StrOf("R2")]]
      [] u = "no_content" -> [ok |-> TRUE, dict |-> TRUE, out |-> NoResult]
      [] u = "Astr_R1" -> [ok |-> TRUE, dict |-> TRUE,
                           out |-> [actions |-> StrOf("A1"), rationale |-> StrOf("R1")]]
      [] u = "A1_Rnum" -> [ok |-> TRUE, dict |-> TRUE,
                           out |-> [actions |-> ListOf("A1"),
                                    rationale |-> [t |-> "num", v |-> "7"]]]
      [] u = "json_list" -> [ok |-> TRUE, dict |-> FALSE, out |-> NoResult]
      [] OTHER -> [ok |-> FALSE, dict |-> FALSE, out |-> NoResult]

\* Mutant of Coerce: an invalid rationale is passed on.
Coerce_actionsOnly(out) ==
    [actions |-> IF out.actions.t # "list" THEN ListOf("Check process") ELSE out.actions,
     rationale |-> out.rationale]

\* advise: the defaults put in place of an invalid `actions` or `rationale`
Coerce(out) ==
    [actions |-> IF out.actions.t # "list" THEN ListOf("Check process") ELSE out.actions,
     rationale |-> IF out.rationale.t # "str"
                   THEN StrOf("Model returned invalid rationale.") ELSE out.rationale]

\* Mutant of AttemptRaises: a response that needs a default is taken as a failure.
AttemptRaises_strict(u) ==
    \/ u = "raise" \/ ~ParseContent(u).ok \/ ~ParseContent(u).dict
    \/ Coerce(ParseContent(u).out) # ParseContent(u).out

\* The attempt raises inside the try block: the call itself, json.loads, or out.get
AttemptRaises(u) == u = "raise" \/ ~ParseContent(u).ok \/ ~ParseContent(u).dict

\* What is raised: by the client call, by json.loads, by out.get on a non-dict
Raised(u) ==
    IF u = "raise" THEN "APIError"
    ELSE IF ~ParseContent(u).ok THEN "JSONDecodeError" ELSE "AttributeError"

\* advise: `except Exception` takes every one of them
Caught(exc) == exc \in {"APIError", "JSONDecodeError", "AttributeError"}

CircuitOpenResponse ==
    [actions |-> ListOf("Check process"),
     rationale |-> StrOf("Upstream unavailable (circuit open).")]

FailedResponse ==
    [actions |-> ListOf("Check process"), rationale |-> StrOf("Failed to retrieve advice.")]

InitAgent ==
    /\ now = 1
    /\ agent \in [max_retries : 0..MaxRetries, breaker_threshold : 1..MaxThreshold,
                  cache_db : {"none", "ok"}]
    /\ failures = <<>>
    /\ cache = <<>>
    /\ adv = NoAdvise
    /\ fail_log = <<>>
    /\ succ = <<>>
    /\ RulesIdle
    /\ RlIdle
    /\ HubIdle
    /\ FnIdle
    /\ StreamIdle
    /\ ThreadsIdle

\* advise, up to the first attempt: sanitize, cache lookup, breaker check
AdviseStart(as) ==
    /\ adv.pc = "idle"
    /\ adv.n < MaxAdvise
    /\ LET payload == _sanitize_alerts(as)
           key == _cache_key(Model, payload)
           cached == _cache_get(agent.cache_db, cache, key)
           br == _breaker_open(failures, now, agent.breaker_threshold)
           seen == [pc |-> "idle", key |-> key, attempt |-> 0, result |-> NoResult,
                    how |-> "none", payload |-> payload, had |-> payload \in DOMAIN succ,
                    expected |-> IF payload \in DOMAIN succ THEN succ[payload]
                                 ELSE NoResult,
                    open |-> Cardinality({i \in 1..Len(fail_log) :
                                            now - fail_log[i] <= BreakerWindow})
                             >= agent.breaker_threshold,
                    n |-> adv.n + 1]
       IN  IF cached.hit
           THEN /\ adv' = [seen EXCEPT !.result = cached.value, !.how = "cache_hit"]
                /\ UNCHANGED failures
           ELSE /\ failures' = br.failures
                /\ IF br.open
                   THEN adv' = [seen EXCEPT !.result = CircuitOpenResponse,
                                            !.how = "circuit_open"]
                   ELSE adv' = [seen EXCEPT !.pc = "calling"]
    /\ UNCHANGED <<now, agent, cache, fail_log, succ, ruleVars, rlVars, hubVars, fnVars,
                   streamVars, threadVars>>

\* advise: one pass of the retry loop
Attempt(u) ==
    /\ adv.pc = "calling"
    /\ IF AttemptRaises(u) /\ ~Caught(Raised(u))
       THEN /\ adv' = [adv EXCEPT !.pc = "raised", !.attempt = @ + 1]
            /\ UNCHANGED <<now, failures, cache, fail_log, succ>>
       ELSE IF AttemptRaises(u)
       THEN /\ failures' = _record_failure(failures, now)
            /\ fail_log' = Append(fail_log, now)
            /\ IF adv.attempt + 1 >= agent.max_retries
               THEN adv' = [adv EXCEPT !.pc = "idle", !.attempt = @ + 1,
                                       !.result = FailedResponse, !.how = "failed"]
               ELSE adv' = [adv EXCEPT !.pc = "sleeping", !.attempt = @ + 1]
            /\ UNCHANGED <<now, cache, succ>>
       ELSE LET out == Coerce(ParseContent(u).out)
            IN  /\ cache' = _cache_set(agent.cache_db, cache, adv.key, out)
                /\ succ' = [k \in DOMAIN succ \cup {adv.payload} |->
                               IF k = adv.payload THEN out ELSE succ[k]]
                /\ adv' = [adv EXCEPT !.pc = "idle", !.attempt = @ + 1,
                                      !.result = out, !.how = "ok"]
                /\ failures' = AfterSuccess(failures)
                /\ UNCHANGED <<now, fail_log>>
    /\ UNCHANGED <<agent, ruleVars, rlVars, hubVars, fnVars, streamVars, threadVars>>

\* advise: time.sleep(backoff_base * 2 ** (attempt - 1))
Backoff ==
    /\ adv.pc = "sleeping"
    /\ now' = now + BackoffBase * 2 ^ (adv.attempt - 1)
    /\ adv' = [adv EXCEPT !.pc = "calling"]
    /\ UNCHANGED <<agent, failures, cache, fail_log, succ, ruleVars, rlVars, hubVars,
                   fnVars, streamVars, threadVars>>

\* time passes between two advise calls
TickAgent ==
    /\ adv.pc = "idle"
    /\ now < MaxIdle
    /\ now' = now + 1
    /\ UNCHANGED <<agentVars, ruleVars, rlVars, hubVars, fnVars, streamVars, threadVars>>

NextAgent ==
    \/ \E as \in AdviseInputs : AdviseStart(as)
    \/ \E u \in Upstream : Attempt(u)
    \/ Backoff
    \/ TickAgent

SpecAgent == InitAgent /\ [][NextAgent]_vars

(***************************************************************************)
(* Claims on the advice client (under SpecAgent)                           *)
(***************************************************************************)
Returned == adv.pc = "idle" /\ adv.how # "none"

\* C6: advise never raises to its caller; whatever the upstream does on each
\* attempt and whatever the cache and breaker hold, the value it returns has an
\* `actions` list and a `rationale` string.
C6_AlwaysUsable ==
    /\ adv.pc # "raised"
    /\ Returned => (adv.result.actions.t = "list" /\ adv.result.rationale.t = "str")

C6_Witness ==
    /\ Returned /\ adv.how = "ok" /\ adv.attempt = 2
    /\ adv.result.rationale = StrOf("Model returned invalid rationale.")

C8_BreakerOpensAndCloses ==
    (Returned /\ adv.how # "cache_hit") =>
        /\ adv.open => (adv.how = "circuit_open" /\ adv.attempt = 0
                          /\ adv.result = CircuitOpenResponse)
        /\ ~adv.open => (adv.attempt >= 1 /\ adv.how \in {"ok", "failed"})

C8_Witness ==
    /\ Returned /\ adv.how = "ok" /\ ~adv.open
    /\ Len(fail_log) >= agent.breaker_threshold /\ agent.breaker_threshold = 2
    /\ \A i \in 1..Len(fail_log) : now - fail_log[i] > BreakerWindow


(***************************************************************************)
(* Claims on the rate limiters (under SpecRL)                              *)
(***************************************************************************)
\* The limit that applies to a limiter key: <<c>> is a connection, <<ip, path>> a request.
LimitFor(key) == IF Len(key) = 1 THEN ws_msgs_per_sec ELSE rl_per_sec

\* The last call went through a limiter (it was not refused before, and its path is limited).
Limited(call) ==
    /\ call.kind \in {"http", "ws"}
    /\ call.status # 401
    /\ call.kind = "http" => call.key[2] \in ApiPaths

\* The calls counted so far in the window of the key of `call`.
WindowCount(call) ==
    IF call.kind = "ws" THEN rl_win[call.key[1]].cnt ELSE rl_state[call.key].count

\* C5 as stated, for every configured limit: the calls admitted for a key within
\* one window never exceed the limit.
C5_AdmittedWithinAnyLimit ==
    \A k \in DOMAIN rl_admitted : rl_admitted[k] <= LimitFor(k)

C5_State ==
    /\ \A k \in DOMAIN rl_admitted : LimitFor(k) >= 1 => rl_admitted[k] <= LimitFor(k)
    /\ (Limited(rl_last) /\ LimitFor(rl_last.key) >= 1
          /\ WindowCount(rl_last) = LimitFor(rl_last.key) + 1) => rl_last.status = 429

C5_Action ==
    (rl_last'.count # rl_last.count /\ Limited(rl_last') /\ LimitFor(rl_last'.key) >= 1) =>
        LET key == rl_last'.key
            limit == LimitFor(key)
        IN  IF rl_last'.kind = "http"
            THEN /\ IF key \notin DOMAIN rl_state \/ now - rl_state[key].start >= OneSecond
                    THEN /\ rl_state'[key] = [start |-> now, count |-> 1]
                         /\ rl_last'.status = 200
                    ELSE /\ rl_state'[key] = [start |-> rl_state[key].start,
                                              count |-> rl_state[key].count + 1]
                         /\ (rl_last'.status = 200) <=> (rl_state[key].count + 1 <= limit)
                 /\ \A k \in DOMAIN rl_state \ {key} : rl_state'[k] = rl_state[k]
                 /\ rl_win' = rl_win
            ELSE /\ LET c == key[1]
                    IN  /\ IF rl_win[c].start = 0 \/ now - rl_win[c].start >= OneSecond
                           THEN /\ rl_win'[c] = [start |-> now, cnt |-> 1]
                                /\ rl_last'.status = 200
                           ELSE /\ rl_win'[c] = [start |-> rl_win[c].start,
                                                 cnt |-> rl_win[c].cnt + 1]
                                /\ (rl_last'.status = 200) <=> (rl_win[c].cnt + 1 <= limit)
                        /\ \A d \in Conns \ {c} : rl_win'[d] = rl_win[d]
                 /\ rl_state' = rl_state

\* C5 (amended): for every configured limit >= 1, a limiter call at least 1.0 s
\* after window_start starts a new window with count 1 and is admitted, any other
\* call increments count and is admitted iff count <= limit; so the calls admitted
\* for a key within one window never exceed limit, the (limit+1)-th call of a
\* window is rejected, and a call leaves the state of every other key unchanged.
C5_FixedWindow == [](C5_State) /\ [][C5_Action]_vars

C5_Witness ==
    /\ rl_per_sec >= 1
    /\ rl_last.kind = "http" /\ rl_last.status = 429
    /\ rl_state[rl_last.key].count = rl_per_sec + 1
    /\ \E k \in DOMAIN rl_state : k # rl_last.key /\ rl_state[k].count >= 1

(***************************************************************************)
(* Streaming hub: build_app of dashboard/__init__.py, the /ws/effluent     *)
(* handler and the channel subscriber task.  The coroutines run on one     *)
(* event loop: an action is the code a coroutine runs between two awaits.  *)
(***************************************************************************)
MaxBuffer == 1          \* max_buffer tried: 0..MaxBuffer
MaxMsgs == 2            \* messages that reach the instance in one run
MaxMessageBytes == 8192 \* OW_SC_WS_MAX_MESSAGE_BYTES

Sizes == {MaxMessageBytes, MaxMessageBytes + 1}
WsRates == {1}
HubConns == {"c1", "c2"}
InstanceId == "i1"
OtherInstance == "i2"
Hole == "<dummy>"

\* websocket_effluent: auth.lower().startswith("bearer ") and auth.split(" ", 1)[1] == token
WsBearerIs(auth, token) ==
    \/ auth \in {"Bearer secret", "bearer secret"} /\ token = "secret"
    \/ auth = "Bearer wrong" /\ token = "wrong"

\* dict: the positions that hold an entry, len(), d[k] = v for a new key, pop(k, None)
DictLive(d) == {i \in 1..Len(d) : d[i] # Hole}
DictLen(d) == Cardinality(DictLive(d))
DictSet(d, k) == IF \E i \in DictLive(d) : d[i] = k THEN d ELSE Append(d, k)
DictPop(d, k) == [i \in 1..Len(d) |-> IF d[i] = k THEN Hole ELSE d[i]]

RECURSIVE DictPopAll(_, _)
DictPopAll(d, ks) == IF ks = <<>> THEN d ELSE DictPopAll(DictPop(d, Head(ks)), Tail(ks))

\* Mutant of IsSender: the sender is not recognised.
IsSender_never(ws, websocket) == FALSE

\* websocket_effluent: `if ws != websocket` guards the send
IsSender(ws, websocket) == ws = websocket

\* Mutant of OwnOrigin: the origin is not compared.
OwnOrigin_never(m) == FALSE

\* _start_redis_subscriber: data.get("origin") == app.state.instance_id
OwnOrigin(m) == m.origin = InstanceId

\* `for conn_id, ws in connections.items()`: from position pos of an iteration
\* that started with `used` entries, the next entry whose body awaits a send.
\* The dict iterator raises RuntimeError when the size changed; the body of the
\* sender's own entry does nothing (skip = NoConn skips no entry).
RECURSIVE NextTarget(_, _, _, _)
NextTarget(d, pos, used, skip) ==
    IF DictLen(d) # used
    THEN [kind |-> "error", key |-> NoConn, pos |-> pos]
    ELSE LET rest == {i \in DictLive(d) : i >= pos}
         IN  IF rest = {}
             THEN [kind |-> "stop", key |-> NoConn, pos |-> pos]
             ELSE LET i == CHOOSE j \in rest : \A k \in rest : j <= k
                  IN  IF skip # NoConn /\ IsSender(d[i], skip)
                      THEN NextTarget(d, i + 1, used, skip)
                      ELSE [kind |-> "item", key |-> d[i], pos |-> i + 1]

\* buffer[-m:]: the last m items for m > 0, and the whole list for m = 0
PyLastSlice(s, m) ==
    IF m = 0 THEN s
    ELSE SubSeq(s, IF Len(s) > m THEN Len(s) - m + 1 ELSE 1, Len(s))

\* Mutant of AppendAndTrim: the record is put in front of the buffer.
AppendAndTrim_inFront(buf, data, max) ==
    LET b == <<data>> \o buf
    IN  IF Len(b) > max THEN PyLastSlice(b, max) ELSE b

\* websocket_effluent: buffer.append(data), then the trim
AppendAndTrim(buf, data, max) ==
    LET b == Append(buf, data)
    IN  IF Len(b) > max THEN PyLastSlice(b, max) ELSE b

\* Mutant of OverSize: one byte more is let through.
OverSize_offByOne(size) == size > MaxMessageBytes + 1

\* websocket_effluent: size > max_msg
OverSize(size) == size > MaxMessageBytes

\* The messages that reached the instance so far, from clients and from the channel.
Arrived ==
    msg_recv_total + Cardinality({i \in 1..Len(published) : published[i].origin # InstanceId})

\* The configurations tried: the buffer sizes without a channel, one size with it.
HubConfigs == {<<m, "none">> : m \in 0..MaxBuffer} \cup {<<MaxBuffer, "up">>}

InitHub ==
    /\ now = 1
    /\ api_token \in Tokens \ {""}
    /\ ws_msgs_per_sec \in WsRates
    /\ rl_per_sec = 0
    /\ rl_state = <<>>
    /\ rl_win = [c \in Conns |-> [start |-> 0, cnt |-> 0]]
    /\ rl_last = NoCall
    /\ rl_admitted = <<>>
    /\ rl_log = <<>>
    /\ \E cfg \in HubConfigs : max_buffer = cfg[1] /\ redis = cfg[2]
    /\ buffer = <<>>
    /\ connections = <<>>
    /\ conn_gauge = 0
    /\ conn_total = 0
    /\ msg_recv_total = 0
    /\ msg_broadcast_total = 0
    /\ ws_errors_total = 0
    /\ channel = <<>>
    /\ published = <<>>
    /\ handler = [c \in Conns |-> NoHandler]
    /\ sock = [c \in Conns |-> "open"]
    /\ outbox = [c \in Conns |-> <<>>]
    /\ sub = [NoSubscriber EXCEPT !.pc = IF redis = "up" THEN "listen" ELSE "off"]
    /\ recv_log = <<>>
    /\ RulesIdle
    /\ AgentIdle
    /\ FnIdle
    /\ StreamIdle
    /\ ThreadsIdle

hubFrame == <<ruleVars, agentVars, fnVars, streamVars, threadVars, api_token, ws_msgs_per_sec,
              rl_per_sec, rl_state, rl_last,
              rl_admitted, rl_log, max_buffer, redis>>

\* websocket_effluent up to its first receive: the token check, accept, registration
Connect(c, auth) ==
    /\ handler[c].pc = "new"
    /\ IF api_token # "" /\ ~WsBearerIs(auth, api_token)
       THEN /\ handler' = [handler EXCEPT ![c].pc = "refused"]
            /\ sock' = [sock EXCEPT ![c] = "closed"]
            /\ UNCHANGED <<connections, conn_total, conn_gauge>>
       ELSE /\ connections' = DictSet(connections, c)
            /\ conn_total' = conn_total + 1
            /\ conn_gauge' = DictLen(connections')
            /\ handler' = [handler EXCEPT ![c].pc = "recv"]
            /\ UNCHANGED sock
    /\ UNCHANGED <<now, rl_win, buffer, msg_recv_total, msg_broadcast_total, ws_errors_total,
                   channel, published, outbox, sub, recv_log, hubFrame>>

\* websocket_effluent after one step of the fan-out loop: suspend in the next
\* send, or leave the loop (remove the failed connections, then publish or
\* receive again), or die of the iterator's RuntimeError in `except Exception`.
\* errs is the error counter so far.
FanOutStep(c, data, nx, used, disc, errs) ==
    CASE nx.kind = "item" ->
            /\ handler' = [handler EXCEPT ![c] =
                              [pc |-> "send", data |-> data, pos |-> nx.pos, used |-> used,
                               target |-> nx.key, disconnected |-> disc]]
            /\ ws_errors_total' = errs
            /\ UNCHANGED <<connections, conn_gauge, sock>>
      [] nx.kind = "stop" ->
            /\ connections' = DictPopAll(connections, disc)
            /\ handler' = [handler EXCEPT ![c] =
                              IF redis # "none"
                              THEN [NoHandler EXCEPT !.pc = "publish", !.data = data]
                              ELSE [NoHandler EXCEPT !.pc = "recv"]]
            /\ ws_errors_total' = errs
            /\ UNCHANGED <<conn_gauge, sock>>
      [] nx.kind = "error" ->
            /\ ws_errors_total' = errs + 1
            /\ connections' = DictPop(connections, c)
            /\ conn_gauge' = DictLen(connections')
            /\ handler' = [handler EXCEPT ![c] = [NoHandler EXCEPT !.pc = "done"]]
            /\ sock' = [sock EXCEPT ![c] = "closed"]

\* websocket_effluent: one message arrives; the size check, the limiter, the
\* append and trim, and the fan-out loop up to its first send
Receive(c, size) ==
    /\ handler[c].pc = "recv"
    /\ sock[c] = "open"
    /\ Arrived < MaxMsgs
    /\ msg_recv_total' = msg_recv_total + 1
    /\ LET data == [from |-> c, n |-> msg_recv_total + 1]
           r == WsRateLimit(rl_win[c], now, ws_msgs_per_sec)
       IN  /\ recv_log' = Append(recv_log, [data |-> data, size |-> size, denied |-> ~r.admit])
           /\ IF OverSize(size)
              THEN /\ ws_errors_total' = ws_errors_total + 1
                   /\ UNCHANGED <<rl_win, buffer, connections, conn_gauge, handler, sock>>
              ELSE /\ rl_win' = [rl_win EXCEPT ![c] = r.win]
                   /\ IF ~r.admit
                      THEN /\ ws_errors_total' = ws_errors_total + 1
                           /\ UNCHANGED <<buffer, connections, conn_gauge, handler, sock>>
                      ELSE /\ buffer' = AppendAndTrim(buffer, data, max_buffer)
                           /\ FanOutStep(c, data,
                                         NextTarget(connections, 1, DictLen(connections), c),
                                         DictLen(connections), <<>>, ws_errors_total)
    /\ UNCHANGED <<now, conn_total, msg_broadcast_total, channel, published, outbox, sub,
                   hubFrame>>

\* websocket_effluent: `await ws.send_json(data)` returns or raises, and the loop goes on
SendDone(c) ==
    /\ handler[c].pc = "send"
    /\ sock[handler[c].target] # "stalled"
    /\ LET h == handler[c]
           ok == sock[h.target] = "open"
           disc == IF ok THEN h.disconnected ELSE Append(h.disconnected, h.target)
           errs == IF ok THEN ws_errors_total ELSE ws_errors_total + 1
       IN  /\ outbox' = IF ok THEN [outbox EXCEPT ![h.target] = Append(@, h.data)] ELSE outbox
           /\ msg_broadcast_total' = IF ok THEN msg_broadcast_total + 1 ELSE msg_broadcast_total
           /\ FanOutStep(c, h.data, NextTarget(connections, h.pos, h.used, c), h.used, disc, errs)
    /\ UNCHANGED <<now, rl_win, buffer, conn_total, msg_recv_total, channel, published, sub,
                   recv_log, hubFrame>>

\* websocket_effluent: `await redis.publish(...)` returns or raises
PublishDone(c, ok) ==
    /\ handler[c].pc = "publish"
    /\ LET m == [origin |-> InstanceId, payload |-> handler[c].data]
       IN  IF ok
           THEN /\ published' = Append(published, m)
                /\ channel' = IF sub.pc \in {"listen", "send"} THEN Append(channel, m)
                              ELSE channel
                /\ UNCHANGED ws_errors_total
           ELSE /\ ws_errors_total' = ws_errors_total + 1
                /\ UNCHANGED <<published, channel>>
    /\ handler' = [handler EXCEPT ![c] = [NoHandler EXCEPT !.pc = "recv"]]
    /\ UNCHANGED <<now, rl_win, buffer, connections, conn_gauge, conn_total, msg_recv_total,
                   msg_broadcast_total, sock, outbox, sub, recv_log, hubFrame>>

\* the client of connection c closes its end
ClientClose(c) ==
    /\ handler[c].pc \in {"recv", "send", "publish"}
    /\ sock[c] = "open"
    /\ sock' = [sock EXCEPT ![c] = "closed"]
    /\ UNCHANGED <<now, rl_win, buffer, connections, conn_gauge, conn_total, msg_recv_total,
                   msg_broadcast_total, ws_errors_total, channel, published, handler, outbox,
                   sub, recv_log, hubFrame>>

\* the client of connection c stops reading: a send to it does not return
ClientStall(c) ==
    /\ handler[c].pc \in {"recv", "send", "publish"}
    /\ sock[c] = "open"
    /\ sock' = [sock EXCEPT ![c] = "stalled"]
    /\ UNCHANGED <<now, rl_win, buffer, connections, conn_gauge, conn_total, msg_recv_total,
                   msg_broadcast_total, ws_errors_total, channel, published, handler, outbox,
                   sub, recv_log, hubFrame>>

\* websocket_effluent: receive_json raises WebSocketDisconnect
HandlerDisconnect(c) ==
    /\ handler[c].pc = "recv"
    /\ sock[c] = "closed"
    /\ connections' = DictPop(connections, c)
    /\ conn_gauge' = DictLen(connections')
    /\ handler' = [handler EXCEPT ![c] = [NoHandler EXCEPT !.pc = "done"]]
    /\ UNCHANGED <<now, rl_win, buffer, conn_total, msg_recv_total, msg_broadcast_total,
                   ws_errors_total, channel, published, sock, outbox, sub, recv_log, hubFrame>>

\* A channel message whose data json.loads cannot decode.
Garbage == "<garbage>"
Undecodable(m) == m.origin = Garbage

\* Mutant of SubAfterError: the task returns.
SubAfterError_exits == "ended"

\* _start_redis_subscriber: the inner `except Exception` counts the error and
\* continues with the next message
SubAfterError == "listen"

\* _start_redis_subscriber after one step of its fan-out loop: suspend in the
\* next send, or leave the loop (remove the failed connections and set the
\* gauge) and listen again, or take the iterator's RuntimeError in the inner
\* `except Exception` and listen again.
SubStep(data, nx, used, disc, errs) ==
    CASE nx.kind = "item" ->
            /\ sub' = [pc |-> "send", data |-> data, pos |-> nx.pos, used |-> used,
                       target |-> nx.key, disconnected |-> disc]
            /\ ws_errors_total' = errs
            /\ UNCHANGED <<connections, conn_gauge>>
      [] nx.kind = "stop" ->
            /\ connections' = DictPopAll(connections, disc)
            /\ conn_gauge' = IF disc = <<>> THEN conn_gauge ELSE DictLen(connections')
            /\ sub' = [NoSubscriber EXCEPT !.pc = "listen"]
            /\ ws_errors_total' = errs
      [] nx.kind = "error" ->
            /\ ws_errors_total' = errs + 1
            /\ sub' = [NoSubscriber EXCEPT !.pc = SubAfterError]
            /\ UNCHANGED <<connections, conn_gauge>>

\* Mutant of BufferAfterRemote: the record of the other instance is buffered.
BufferAfterRemote_appended(buf, data) == Append(buf, data)

\* _start_redis_subscriber, from the origin test to the end of the pass:
\* app.state.buffer is not written
BufferAfterRemote(buf, data) == buf

\* _start_redis_subscriber: pubsub.listen() yields a message; the decoding,
\* the origin test and the fan-out loop up to its first send
SubNext ==
    /\ sub.pc = "listen"
    /\ channel # <<>>
    /\ channel' = Tail(channel)
    /\ IF Undecodable(Head(channel))
       THEN /\ ws_errors_total' = ws_errors_total + 1
            /\ sub' = [NoSubscriber EXCEPT !.pc = SubAfterError]
            /\ UNCHANGED <<connections, conn_gauge>>
       ELSE IF OwnOrigin(Head(channel))
       THEN UNCHANGED <<sub, ws_errors_total, connections, conn_gauge>>
       ELSE SubStep(Head(channel).payload,
                    NextTarget(connections, 1, DictLen(connections), NoConn),
                    DictLen(connections), <<>>, ws_errors_total)
    /\ buffer' = IF Undecodable(Head(channel)) \/ OwnOrigin(Head(channel)) THEN buffer
                 ELSE BufferAfterRemote(buffer, Head(channel).payload)
    /\ UNCHANGED <<now, rl_win, conn_total, msg_recv_total, msg_broadcast_total,
                   published, handler, sock, outbox, recv_log, hubFrame>>

\* _start_redis_subscriber: `await ws.send_json(...)` returns or raises, and the loop goes on
SubSendDone ==
    /\ sub.pc = "send"
    /\ sock[sub.target] # "stalled"
    /\ LET ok == sock[sub.target] = "open"
           disc == IF ok THEN sub.disconnected ELSE Append(sub.disconnected, sub.target)
           errs == IF ok THEN ws_errors_total ELSE ws_errors_total + 1
       IN  /\ outbox' = IF ok THEN [outbox EXCEPT ![sub.target] = Append(@, sub.data)]
                        ELSE outbox
           /\ msg_broadcast_total' = IF ok THEN msg_broadcast_total + 1 ELSE msg_broadcast_total
           /\ SubStep(sub.data, NextTarget(connections, sub.pos, sub.used, NoConn), sub.used,
                      disc, errs)
    /\ UNCHANGED <<now, rl_win, buffer, conn_total, msg_recv_total, channel, published,
                   handler, sock, recv_log, hubFrame>>

\* _start_redis_subscriber: pubsub.listen() raises; the outer except ends the task
SubTransportError ==
    /\ sub.pc = "listen"
    /\ sub' = [NoSubscriber EXCEPT !.pc = "ended"]
    /\ channel' = <<>>
    /\ UNCHANGED <<now, rl_win, buffer, connections, conn_gauge, conn_total, msg_recv_total,
                   msg_broadcast_total, ws_errors_total, published, handler, sock, outbox,
                   recv_log, hubFrame>>

\* the other instance publishes a record of one of its own connections
RemotePublish ==
    /\ redis = "up"
    /\ LET k == Cardinality({i \in 1..Len(published) : published[i].origin = OtherInstance})
           m == [origin |-> OtherInstance, payload |-> [from |-> "remote", n |-> k + 1]]
       IN  /\ Arrived < MaxMsgs
           /\ published' = Append(published, m)
           /\ channel' = IF sub.pc \in {"listen", "send"} THEN Append(channel, m) ELSE channel
    /\ UNCHANGED <<now, rl_win, buffer, connections, conn_gauge, conn_total, msg_recv_total,
                   msg_broadcast_total, ws_errors_total, handler, sock, outbox, sub, recv_log,
                   hubFrame>>

\* something that is not JSON is published to the channel
GarbagePublish ==
    /\ redis = "up"
    /\ Arrived < MaxMsgs
    /\ LET m == [origin |-> Garbage, payload |-> [from |-> Garbage, n |-> Len(published) + 1]]
       IN  /\ published' = Append(published, m)
           /\ channel' = IF sub.pc \in {"listen", "send"} THEN Append(channel, m) ELSE channel
    /\ UNCHANGED <<now, rl_win, buffer, connections, conn_gauge, conn_total, msg_recv_total,
                   msg_broadcast_total, ws_errors_total, handler, sock, outbox, sub, recv_log,
                   hubFrame>>

\* a second passes
TickHub ==
    /\ now + OneSecond <= MaxTime
    /\ now' = now + OneSecond
    /\ UNCHANGED <<rl_win, hubVars, ruleVars, agentVars, fnVars, streamVars, threadVars,
                   api_token, ws_msgs_per_sec, rl_per_sec, rl_state, rl_last, rl_admitted,
                   rl_log>>

NextHub ==
    \/ \E c \in HubConns, auth \in AuthHeaders : Connect(c, auth)
    \/ \E c \in HubConns, size \in Sizes : Receive(c, size)
    \/ \E c \in HubConns : SendDone(c)
    \/ \E c \in HubConns, ok \in BOOLEAN : PublishDone(c, ok)
    \/ \E c \in HubConns : ClientClose(c)
    \/ \E c \in HubConns : HandlerDisconnect(c)
    \/ SubNext
    \/ SubSendDone
    \/ SubTransportError
    \/ RemotePublish
    \/ GarbagePublish
    \/ TickHub

SpecHub == InitHub /\ [][NextHub]_vars

(***************************************************************************)
(* Claims on the streaming hub                                             *)
(***************************************************************************)
Range(s) == {s[i] : i \in 1..Len(s)}

\* A received message the capacity checks refuse: too large, or denied by the limiter.
Rejected(e) == e.size > MaxMessageBytes \/ e.denied

\* The records of the accepted messages, in the order they were accepted.
AcceptedRecords ==
    LET acc == SelectSeq(recv_log, LAMBDA e : ~Rejected(e))
    IN  [i \in 1..Len(acc) |-> acc[i].data]

Min(a, b) == IF a <= b THEN a ELSE b

\* C1: for every non-negative max_buffer and after any interleaving of inbound
\* messages on any connections, the buffer holds at most max_buffer entries
\* once a handler has done its append-and-trim step.
C1_BufferBounded == Len(buffer) <= max_buffer

\* C2: after n accepted messages the buffer equals the most recent
\* min(n, max_buffer) accepted records in acceptance order: only the oldest
\* entries are evicted and the rest keep their order.
C2_BufferIsMostRecent ==
    LET n == Len(AcceptedRecords)
        k == Min(n, max_buffer)
    IN  buffer = SubSeq(AcceptedRecords, n - k + 1, n)

\* C3: a message received on connection c is never sent back to c, neither by
\* the fan-out loop of c's own handler nor by the subscriber task when the
\* instance gets its own published message back from the channel.
C3_NeverEchoed ==
    /\ \A c \in Conns : \A i \in 1..Len(outbox[c]) : outbox[c][i].from # c
    /\ \A c \in Conns : handler[c].pc = "send" => handler[c].target # handler[c].data.from
    /\ sub.pc = "send" => sub.target # sub.data.from

C3_Witness ==
    \E c \in Conns, d \in Conns :
        /\ c # d
        /\ \E i \in 1..Len(outbox[d]) : outbox[d][i].from = c
        /\ \E j \in 1..Len(published) :
              published[j].origin = InstanceId /\ published[j].payload.from = c
        /\ channel = <<>>
        /\ sub.pc = "listen"
        /\ handler[c].pc = "recv"

C4_State ==
    \A i \in 1..Len(recv_log) :
        Rejected(recv_log[i]) =>
            LET m == recv_log[i].data
            IN  /\ m \notin Range(buffer)
                /\ \A c \in Conns : m \notin Range(outbox[c])
                /\ \A j \in 1..Len(published) : published[j].payload # m
                /\ \A j \in 1..Len(channel) : channel[j].payload # m
                /\ \A c \in Conns : handler[c].data # m
                /\ sub.data # m

C4_Action ==
    msg_recv_total' # msg_recv_total =>
        /\ Len(recv_log') = Len(recv_log) + 1
        /\ LET e == recv_log'[Len(recv_log')]
               c == e.data.from
           IN  /\ c \in Conns
               /\ e.denied = ~WsRateLimit(rl_win[c], now, ws_msgs_per_sec).admit
               /\ Rejected(e) =>
                     /\ buffer' = buffer
                     /\ outbox' = outbox
                     /\ published' = published
                     /\ channel' = channel
                     /\ ws_errors_total' = ws_errors_total + 1
                     /\ connections' = connections
                     /\ c \in Range(connections')
                     /\ handler'[c].pc = "recv"
                     /\ sock'[c] = "open"

\* C4: a /ws/effluent message rejected for capacity reasons (larger than the
\* byte ceiling, or denied by the connection's rate limiter) is never appended
\* to the buffer, never sent to a subscriber, never published to the channel,
\* and raises the error counter by exactly one; its connection stays
\* registered and its receive loop goes on with the next message.
C4_RejectedIsDropped == [](C4_State) /\ [][C4_Action]_vars

C4_Witness ==
    \E i \in 1..Len(recv_log), j \in 1..Len(recv_log) :
        /\ i < j
        /\ Rejected(recv_log[i])
        /\ recv_log[j].data.from = recv_log[i].data.from
        /\ ~Rejected(recv_log[j])
        /\ recv_log[j].data \in Range(buffer)
        /\ ws_errors_total = 1

(***************************************************************************)
(* Severity tiering: rule_engine._get_severity and rules._severity as      *)
(* functions of (value, limit), applied to two inputs at a time            *)
(***************************************************************************)
MaxSevValue == 44       \* values tried: 0..MaxSevValue
SevLimits == {4, 20}    \* limits tried: the tier boundaries fall on integers

SevInputs == {[value |-> v, limit |-> l] : v \in 0..MaxSevValue, l \in SevLimits}

InitSeverity ==
    /\ \E a \in SevInputs, b \in SevInputs :
          fcall = [fn |-> "input", args |-> <<a, b>>, result |-> <<>>]
    /\ now = 1
    /\ RulesIdle
    /\ RlIdle
    /\ AgentIdle
    /\ HubIdle
    /\ StreamIdle
    /\ ThreadsIdle

\* rule_engine._get_severity on both inputs
GetSeverity ==
    /\ fcall.fn = "input"
    /\ fcall' = [fcall EXCEPT !.fn = "_get_severity",
                              !.result = [i \in 1..2 |->
                                  _get_severity(Frac(fcall.args[i].value, 1), fcall.args[i].limit)]]
    /\ UNCHANGED <<now, ruleVars, rlVars, agentVars, hubVars, streamVars, threadVars>>

\* rules._severity on both inputs
Severity ==
    /\ fcall.fn = "input"
    /\ fcall' = [fcall EXCEPT !.fn = "_severity",
                              !.result = [i \in 1..2 |->
                                  _severity(Frac(fcall.args[i].value, 1), fcall.args[i].limit)]]
    /\ UNCHANGED <<now, ruleVars, rlVars, agentVars, hubVars, streamVars, threadVars>>

NextSeverity == GetSeverity \/ Severity

SpecSeverity == InitSeverity /\ [][NextSeverity]_vars

(***************************************************************************)
(* Claims on severity tiering (under SpecSeverity)                         *)
(***************************************************************************)
LevelRank(l) == CASE l = "info" -> 0 [] l = "watch" -> 1 [] l = "warning" -> 2
                  [] l = "critical" -> 3

\* value/limit of the first input is below value/limit of the second
RatioLess(a, b) == a.value * b.limit < b.value * a.limit

\* C11: for positive limits and under each of the two strategies, the level is
\* monotonic in value/limit: r1 < r2 implies level(r1) <= level(r2) in the
\* order info < watch < warning < critical.
C11_SeverityMonotonic ==
    fcall.fn \in {"_get_severity", "_severity"} =>
        (RatioLess(fcall.args[1], fcall.args[2])
            => LevelRank(fcall.result[1]) <= LevelRank(fcall.result[2]))

C11_Witness ==
    /\ fcall.fn = "_get_severity"
    /\ fcall.args[1].limit # fcall.args[2].limit
    /\ RatioLess(fcall.args[1], fcall.args[2])
    /\ fcall.result = <<"watch", "warning">>

(***************************************************************************)
(* Bearer-token checks: the HTTP middleware and the /ws/effluent handshake *)
(* of one application                                                      *)
(***************************************************************************)
InitAuth ==
    /\ now = 1
    /\ api_token \in Tokens
    /\ rl_per_sec = 1
    /\ ws_msgs_per_sec = rl_per_sec
    /\ rl_state = <<>>
    /\ rl_win = [c \in Conns |-> [start |-> 0, cnt |-> 0]]
    /\ rl_last = NoCall
    /\ rl_admitted = <<>>
    /\ rl_log = <<>>
    /\ RulesIdle
    /\ AgentIdle
    /\ HubIdle
    /\ FnIdle
    /\ StreamIdle
    /\ ThreadsIdle

NextAuth ==
    \/ \E ip \in Clients, path \in Paths, auth \in AuthHeaders : HttpRequest(ip, path, auth)
    \/ \E c \in HubConns, auth \in AuthHeaders : Connect(c, auth)
    \/ \E c \in HubConns : ClientClose(c)
    \/ \E c \in HubConns : HandlerDisconnect(c)
    \/ TickRL

SpecAuth == InitAuth /\ [][NextAuth]_vars

(***************************************************************************)
(* Claims on the bearer-token checks (under SpecAuth)                      *)
(***************************************************************************)
\* The header names the bearer scheme, in any case, and carries exactly `token`.
CarriesToken(auth, token) ==
    \/ auth \in {"Bearer secret", "bearer secret"} /\ token = "secret"
    \/ auth = "Bearer wrong" /\ token = "wrong"

\* The header is "Bearer " followed by exactly `token`.
ExactBearer(auth, token) ==
    \/ auth = "Bearer secret" /\ token = "secret"
    \/ auth = "Bearer wrong" /\ token = "wrong"

C12_Http ==
    \A ip \in Clients, path \in ApiPaths, auth \in AuthHeaders :
        (api_token # "" /\ HttpRequest(ip, path, auth)) =>
            /\ ~CarriesToken(auth, api_token) =>
                  rl_last'.status = 401 /\ rl_state' = rl_state
            /\ ExactBearer(auth, api_token) => rl_last'.status # 401

C12_Ws ==
    \A c \in Conns, auth \in AuthHeaders :
        (api_token # "" /\ Connect(c, auth)) =>
            /\ ~CarriesToken(auth, api_token) =>
                  /\ handler'[c].pc = "refused"
                  /\ sock'[c] = "closed"
                  /\ connections' = connections
                  /\ conn_total' = conn_total
                  /\ conn_gauge' = conn_gauge
            /\ ExactBearer(auth, api_token) =>
                  /\ handler'[c].pc = "recv"
                  /\ c \in Range(connections')
                  /\ conn_total' = conn_total + 1

C12_RefusedStaysOut ==
    \A c \in Conns : handler[c].pc = "refused" => c \notin Range(connections)

Count(s, x) == Cardinality({i \in 1..Len(s) : s[i] = x})

\* The connections whose send failed in the pass p, the send in flight included.
FailedIn(p) ==
    {p.disconnected[i] : i \in 1..Len(p.disconnected)}
        \cup (IF sock[p.target] = "closed" THEN {p.target} ELSE {})

\* One step of a fan-out pass in which a send has failed: p is the pass before
\* its send returns, q after it.
C13_PassStep(p, q, sender) ==
    FailedIn(p) # {} =>
        /\ ws_errors_total' = ws_errors_total + (IF sock[p.target] = "closed" THEN 1 ELSE 0)
        /\ q.pc = "send" => connections' = connections
        /\ q.pc # "send" =>
              /\ \A f \in FailedIn(p) : f \notin Range(connections')
              /\ \A d \in Range(connections) \ ({Hole, sender} \cup FailedIn(p)) :
                    Count(outbox'[d], p.data) = 1

\* C13: in a fan-out pass in which a send fails, the message is still sent
\* exactly once to every other registered subscriber except the sender; the
\* failing connection leaves the registry only when the pass has visited all
\* connections, and the error counter grows by one per failed send.
C13_FailedSendIsIsolated ==
    [][/\ \A c \in Conns :
             (handler[c].pc = "send" /\ handler'[c] # handler[c])
                 => C13_PassStep(handler[c], handler'[c], c)
       /\ (sub.pc = "send" /\ sub' # sub) => C13_PassStep(sub, sub', NoConn)]_vars

(***************************************************************************)
(* The hub with a consumer that stops reading: three connections, no       *)
(* channel.  A send that was started returns unless its target is stalled. *)
(***************************************************************************)
InitSlow ==
    /\ InitHub
    /\ redis = "none"
    /\ max_buffer = MaxBuffer
    /\ ws_msgs_per_sec = 1

NextSlow ==
    \/ \E c \in Conns, auth \in AuthHeaders : Connect(c, auth)
    \/ \E c \in Conns, size \in Sizes : Receive(c, size)
    \/ \E c \in Conns : SendDone(c)
    \/ \E c \in Conns : ClientStall(c)

FairSlow == \A c \in Conns : WF_vars(SendDone(c))

SpecSlow == InitSlow /\ [][NextSlow]_vars /\ FairSlow

(***************************************************************************)
(* Claims on the hub with a stalled consumer (under SpecSlow)              *)
(***************************************************************************)
Records == {[from |-> c, n |-> k] : c \in Conns, k \in 1..MaxMsgs}

\* The handler of c is in a send of m to a stalled consumer, and d is another
\* registered subscriber with an open connection that has not got m.
C14_Waiting(c, d, m) ==
    /\ handler[c].pc = "send"
    /\ handler[c].data = m
    /\ sock[handler[c].target] = "stalled"
    /\ d \notin {c, handler[c].target}
    /\ d \in Range(connections)
    /\ sock[d] = "open"
    /\ m \notin Range(outbox[d])

\* C14: a slow consumer does not block delivery to others: if the send of a
\* message to one subscriber never completes, the message is still eventually
\* delivered to every other registered subscriber.
C14_SlowConsumerDoesNotBlock ==
    \A c \in Conns, d \in Conns, m \in Records :
        C14_Waiting(c, d, m) ~> (m \in Range(outbox[d]))

(***************************************************************************)
(* Claims on the shared channel (under SpecHub)                            *)
(***************************************************************************)
\* The channel messages that carry record m.
PublishedOf(m) == {j \in 1..Len(published) : published[j].payload = m}

\* The records that exist: those of local connections and those of the other instance.
AllRecords == Records \cup {[from |-> "remote", n |-> k] : k \in 1..MaxMsgs}

C15_State ==
    /\ \A m \in AllRecords : Cardinality(PublishedOf(m)) <= 1
    /\ \A m \in AllRecords, c \in Conns : Count(outbox[c], m) <= 1
    /\ sub.pc = "send" => sub.data.from \notin Conns
    /\ \A j \in 1..Len(published) :
          published[j].origin = InstanceId <=> published[j].payload.from \in Conns

\* A step of the subscriber task publishes nothing.
C15_Action == sub' # sub => published' = published

\* C15: a record accepted by an instance is published to the channel at most
\* once: the subscriber task never publishes, never fans out a message of its
\* own origin, and fans out the others to its local connections only, so a
\* connection receives each record at most once.
C15_PublishedOnce == [](C15_State) /\ [][C15_Action]_vars

C15_Witness ==
    \E c \in Conns, d \in Conns :
        /\ c # d
        /\ Len(published) = 2
        /\ channel = <<>>
        /\ sub.pc = "listen"
        /\ \E i \in 1..Len(outbox[d]) : outbox[d][i].from = c
        /\ \E i \in 1..Len(outbox[d]) : outbox[d][i].from = "remote"
        /\ \E i \in 1..Len(outbox[c]) : outbox[c][i].from = "remote"

\* A step of the handler of c that ends the handling of an accepted record
\* without having reached the publish call.
C16_Skips(c) ==
    \/ /\ handler[c].pc = "send"
       /\ handler'[c].pc \notin {"send", "publish"}
    \/ /\ handler[c].pc = "recv"
       /\ buffer' # buffer
       /\ recv_log'[Len(recv_log')].data.from = c
       /\ handler'[c].pc \notin {"send", "publish"}

\* A step in which the publish call of the handler of c returns: the channel
\* has the record under this instance's origin, unless the call itself raised.
C16_Publishes(c) ==
    (handler[c].pc = "publish" /\ handler'[c].pc # "publish") =>
        \/ published' = Append(published, [origin |-> InstanceId, payload |-> handler[c].data])
        \/ ws_errors_total' = ws_errors_total + 1

\* C16: with the shared channel configured, every record accepted on
\* /ws/effluent is published to the channel as {origin: this instance,
\* payload: record}, whatever happens during the local fan-out of the record.
C16_AcceptedIsPublished ==
    [][redis = "up" => \A c \in Conns : ~C16_Skips(c) /\ C16_Publishes(c)]_vars

\* C17: the subscriber task never exits because of a single message: a
\* malformed channel message or a failed delivery raises the error counter and
\* the loop goes on to the next message; the task ends only on a
\* transport-level error and is never restarted, while local fan-out keeps
\* working.
C17_SubscriberSurvives ==
    [][/\ SubNext =>
             /\ sub'.pc \in {"listen", "send"}
             /\ Undecodable(Head(channel)) =>
                   /\ sub'.pc = "listen"
                   /\ ws_errors_total' = ws_errors_total + 1
                   /\ channel' = Tail(channel)
       /\ SubSendDone =>
             /\ sub'.pc \in {"listen", "send"}
             /\ sock[sub.target] = "closed" => ws_errors_total' >= ws_errors_total + 1
       /\ (sub.pc # "ended" /\ sub'.pc = "ended") => SubTransportError
       /\ sub.pc = "ended" =>
             /\ sub'.pc = "ended"
             /\ \A c \in Conns :
                   (handler[c].pc = "send" /\ handler'[c] # handler[c]
                       /\ sock[handler[c].target] = "open")
                   => outbox'[handler[c].target]
                        = Append(outbox[handler[c].target], handler[c].data)]_vars

C17_Witness ==
    /\ sub.pc = "ended"
    /\ ws_errors_total = 1
    /\ \E j \in 1..Len(published) : Undecodable(published[j])
    /\ \E c \in Conns : handler[c].pc = "send" /\ sock[handler[c].target] = "open"


(***************************************************************************)
(* Further claims on the advice client (under SpecAgent)                   *)
(***************************************************************************)
\* C18: when every attempt of an advise call fails, the response returned on
\* exhausting the retries is the response returned when the circuit breaker
\* short-circuits a call: the same actions and the same rationale.
C18_ExhaustedEqualsCircuitOpen ==
    (Returned /\ adv.how = "failed") =>
        /\ adv.result.actions = CircuitOpenResponse.actions
        /\ adv.result.rationale = CircuitOpenResponse.rationale

\* The pass of the retry loop taken in this step was a failed attempt.
FailedAttempt == adv.pc = "calling" /\ Len(fail_log') = Len(fail_log) + 1

\* C19: for every configured max_retries an advise call makes at most
\* max_retries upstream attempts; after failed attempt i that is followed by
\* another attempt it waits backoff_base * 2^(i-1) and nothing else, and after
\* its last attempt it returns without waiting.
C19_BoundedAttemptsWithBackoff ==
    [][/\ adv'.attempt # adv.attempt => adv'.attempt <= agent.max_retries
       /\ adv.pc = "calling" => /\ now' = now
                                /\ adv'.attempt = adv.attempt + 1
                                /\ adv'.pc \in {"idle", "sleeping"}
       /\ (FailedAttempt /\ adv'.attempt >= agent.max_retries) => adv'.pc = "idle"
       /\ (FailedAttempt /\ adv'.attempt < agent.max_retries) => adv'.pc = "sleeping"
       /\ adv.pc = "sleeping" => /\ now' = now + BackoffBase * 2 ^ (adv.attempt - 1)
                                 /\ adv'.pc = "calling"
                                 /\ adv'.attempt = adv.attempt]_vars

\* The upstream answers whose content is a JSON object with `actions` missing or
\* not a list, or `rationale` missing or not a string.
Malformed ==
    {u \in Upstream : /\ ParseContent(u).ok /\ ParseContent(u).dict
                      /\ \/ ParseContent(u).out.actions.t # "list"
                         \/ ParseContent(u).out.rationale.t # "str"}

\* What the claim says of the attempt that obtains the malformed answer u, the
\* cache left aside: the call returns at this attempt a response with a list of
\* actions and a rationale string, the valid field of the answer kept, and no
\* failure is recorded.
C20_CoercedAndReturned(u) ==
    LET out == ParseContent(u).out
    IN  /\ adv'.pc = "idle" /\ adv'.how = "ok"
        /\ adv'.attempt = adv.attempt + 1
        /\ adv'.result.actions.t = "list" /\ adv'.result.rationale.t = "str"
        /\ out.actions.t = "list" => adv'.result.actions = out.actions
        /\ out.rationale.t = "str" => adv'.result.rationale = out.rationale
        /\ failures' = failures /\ fail_log' = fail_log

C20_Cached ==
    /\ adv.key \in DOMAIN cache'
    /\ JsonLoads(cache'[adv.key]) = adv'.result

MaxItems == 2          \* items published in one run
QueueMaxSize == 1      \* asyncio.Queue(maxsize=1000), scaled down

\* What a send to a client that has gone does, by the versions of the server
\* and the framework: nothing, WebSocketDisconnect, or another exception.
SendToClosed == {"dropped", "WebSocketDisconnect", "RuntimeError"}

\* StreamBroadcaster.subscribe / unsubscribe
subscribe(ss, q) == ss \cup {q}
unsubscribe(ss, q) == ss \ {q}

\* Mutant of publish: the item is put on a full queue as well.
publish_unbounded(ss, qs, item) ==
    [c \in Conns |-> IF c \in ss THEN Append(qs[c], item) ELSE qs[c]]

\* StreamBroadcaster.publish: put_nowait on every queue, QueueFull passed over
publish(ss, qs, item) ==
    [c \in Conns |-> IF c \in ss /\ Len(qs[c]) < QueueMaxSize
                     THEN Append(qs[c], item) ELSE qs[c]]

\* The connections of the queue-backed endpoint in a run.
StreamConns == {"c1"}

streamFrame == <<now, ruleVars, rlVars, agentVars, hubVars, fnVars, threadVars, alerts_ws>>

\* ws_effluent: accept, subscribe, wait on the queue
StreamAccept(c) ==
    /\ shandler[c].pc = "new"
    /\ subs' = subscribe(subs, c)
    /\ shandler' = [shandler EXCEPT ![c].pc = "get"]
    /\ UNCHANGED <<squeue, ssock, spublished, streamFrame>>

\* some task publishes an item
StreamPublish ==
    /\ spublished < MaxItems
    /\ spublished' = spublished + 1
    /\ squeue' = publish(subs, squeue, spublished + 1)
    /\ UNCHANGED <<subs, shandler, ssock, streamFrame>>

\* ws_effluent: `await q.get()` returns an item
StreamGet(c) ==
    /\ shandler[c].pc = "get"
    /\ squeue[c] # <<>>
    /\ shandler' = [shandler EXCEPT ![c] = [pc |-> "send", item |-> Head(squeue[c])]]
    /\ squeue' = [squeue EXCEPT ![c] = Tail(@)]
    /\ UNCHANGED <<subs, ssock, spublished, streamFrame>>

\* ws_effluent: `await ws.send_json(item)` returns or raises; only
\* WebSocketDisconnect is caught, and its handler unsubscribes the queue
StreamSendDone(c, how) ==
    /\ shandler[c].pc = "send"
    /\ IF ssock[c] = "open" \/ how = "dropped"
       THEN /\ shandler' = [shandler EXCEPT ![c] = [pc |-> "get", item |-> 0]]
            /\ UNCHANGED subs
       ELSE IF how = "WebSocketDisconnect"
       THEN /\ shandler' = [shandler EXCEPT ![c] = [pc |-> "done", item |-> 0]]
            /\ subs' = unsubscribe(subs, c)
       ELSE /\ shandler' = [shandler EXCEPT ![c] = [pc |-> "raised", item |-> 0]]
            /\ UNCHANGED subs
    /\ UNCHANGED <<squeue, ssock, spublished, streamFrame>>

\* the client of c closes its connection
StreamClientClose(c) ==
    /\ shandler[c].pc \in {"get", "send"}
    /\ ssock[c] = "open"
    /\ ssock' = [ssock EXCEPT ![c] = "closed"]
    /\ UNCHANGED <<subs, squeue, shandler, spublished, streamFrame>>

StreamNext ==
    \/ \E c \in StreamConns : StreamAccept(c)
    \/ StreamPublish
    \/ \E c \in StreamConns : StreamGet(c)
    \/ \E c \in StreamConns, how \in SendToClosed : StreamSendDone(c, how)
    \/ \E c \in StreamConns : StreamClientClose(c)

(***************************************************************************)
(* Closing a connection: both /ws/effluent endpoints, every coroutine that *)
(* can run being run                                                       *)
(***************************************************************************)
InitCancel ==
    /\ InitHub
    /\ redis = "none"
    /\ max_buffer = MaxBuffer

NextCancel ==
    \/ \E c \in HubConns, auth \in AuthHeaders : Connect(c, auth)
    \/ \E c \in HubConns, size \in Sizes : Receive(c, size)
    \/ \E c \in HubConns : SendDone(c)
    \/ \E c \in HubConns : ClientClose(c)
    \/ \E c \in HubConns : HandlerDisconnect(c)
    \/ StreamNext

\* The event loop runs a coroutine whose await can return.
FairCancel ==
    /\ \A c \in HubConns : WF_vars(SendDone(c)) /\ WF_vars(HandlerDisconnect(c))
    /\ \A c \in StreamConns :
          WF_vars(StreamGet(c)) /\ WF_vars(\E how \in SendToClosed : StreamSendDone(c, how))

SpecCancel == InitCancel /\ [][NextCancel]_vars /\ FairCancel

\* c is a key of app.state.connections
Registered(c) == \E i \in DictLive(connections) : connections[i] = c

\* The hub of build_app: a registered connection whose client has closed is
\* eventually out of app.state.connections.
C21_HubRemoves ==
    \A c \in HubConns : (sock[c] = "closed" /\ Registered(c)) ~> ~Registered(c)

\* The queue-backed endpoint: the queue of a connection whose client has closed
\* is eventually out of the broadcaster's subscribers.
C21_StreamUnsubscribes ==
    \A c \in StreamConns : (ssock[c] = "closed" /\ c \in subs) ~> (c \notin subs)

\* C21: when a subscriber's connection is closed, at any point, its receive
\* loop is unblocked and its registration is eventually removed, even if no
\* further message is published: the hub removes it from its registry and the
\* queue-backed endpoint unsubscribes its queue.
C21_ClosedIsRemoved == C21_HubRemoves /\ C21_StreamUnsubscribes

(***************************************************************************)
(* Further claims on the hub (under SpecHub)                               *)
(***************************************************************************)
\* C22: after every hub operation that changes the connection registry (an
\* accepted subscribe, the disconnect of a connection, the removal of failed
\* connections after a local or a cross-instance fan-out pass) the
\* connection-count gauge equals the number of registered connections; removing
\* a connection that is not registered changes nothing.
C22_GaugeTracksRegistry ==
    [][/\ connections' # connections => conn_gauge' = DictLen(connections')
       /\ \A c \in Conns : ~Registered(c) =>
             /\ DictPop(connections, c) = connections
             /\ DictLen(DictPop(connections, c)) = DictLen(connections)]_vars

(***************************************************************************)
(* GET /metrics: dashboard/__init__.py, build_app.metrics                  *)
(***************************************************************************)
\* The values tried for OW_SC_API_TOKEN and OW_SC_METRICS_TOKEN ("" when unset).
MetricsTokens == {"", "secret", "mtok"}

\* Authorization headers: <<>> is no header, <<s, t>> is s, one space, t.
MetricsHeaders ==
    {<<>>} \cup {<<s, t>> : s \in {"Bearer", "bearer", "Basic"},
                            t \in {"", "secret", "mtok", "wrong"}}

MetricsInputs ==
    [protect : BOOLEAN, api_token : MetricsTokens, m_token : MetricsTokens,
     auth : MetricsHeaders]

\* Mutant of MetricsToken: the API token comes first.
MetricsToken_apiFirst(m, api) == IF api # "" THEN api ELSE m

\* metrics: m_token = os.getenv("OW_SC_METRICS_TOKEN") or api_token
MetricsToken(m, api) == IF m # "" THEN m ELSE api

\* auth.startswith("Bearer ")
StartsWithBearer(auth) == Len(auth) = 2 /\ auth[1] = "Bearer"

\* auth.split(" ", 1)[1], for a header that holds a space
AfterFirstSpace(auth) == auth[2]

\* metrics: the status of the response
metrics(a) ==
    IF a.protect
    THEN LET m_token == MetricsToken(a.m_token, a.api_token)
         IN  IF m_token = "" \/ ~StartsWithBearer(a.auth)
                \/ AfterFirstSpace(a.auth) # m_token
             THEN 401 ELSE 200
    ELSE 200

InitMetrics ==
    /\ \E a \in MetricsInputs : fcall = [fn |-> "input", args |-> <<a>>, result |-> <<>>]
    /\ now = 1
    /\ RulesIdle
    /\ RlIdle
    /\ AgentIdle
    /\ HubIdle
    /\ StreamIdle
    /\ ThreadsIdle

\* one GET /metrics; the middleware neither authenticates nor limits this path
Metrics ==
    /\ fcall.fn = "input"
    /\ fcall' = [fcall EXCEPT !.fn = "metrics", !.result = <<metrics(fcall.args[1])>>]
    /\ UNCHANGED <<now, ruleVars, rlVars, agentVars, hubVars, streamVars, threadVars>>

NextMetrics == Metrics

SpecMetrics == InitMetrics /\ [][NextMetrics]_vars

\* C23: with metrics protection enabled, GET /metrics succeeds iff the request
\* carries the bearer token that equals the metrics token when one is set, and
\* the API token otherwise; with a separate metrics token set the API token is
\* refused (401); with protection enabled and no token configured every
\* request is refused.
C23_MetricsProtected ==
    (fcall.fn = "metrics" /\ fcall.args[1].protect) =>
        LET a == fcall.args[1]
            status == fcall.result[1]
            expected == IF a.m_token # "" THEN a.m_token ELSE a.api_token
        IN  /\ status \in {200, 401}
            /\ status = 200 <=> (expected # "" /\ a.auth = <<"Bearer", expected>>)
            /\ (a.m_token # "" /\ a.api_token # a.m_token
                  /\ a.auth = <<"Bearer", a.api_token>>) => status = 401
            /\ (a.m_token = "" /\ a.api_token = "") => status = 401

C23_Witness ==
    /\ fcall.fn = "metrics"
    /\ fcall.args[1] = [protect |-> TRUE, api_token |-> "secret", m_token |-> "mtok",
                        auth |-> <<"Bearer", "secret">>]
    /\ fcall.result = <<401>>

(***************************************************************************)
(* Rule engine on readings that are not clean                              *)
(***************************************************************************)
\* A concentration cell that float() cannot convert, such as "n/a": the code
\* of the cell, no number of the model.
Bad == -1

DirtyFrames ==
    {[i \in 1..Len(s) |-> [time |-> i - 1, species |-> s[i][1], concentration |-> s[i][2]]] :
        s \in SeqUpTo(Species \X (Concentrations \cup {Bad}), MaxReadings)}

HasBad(rows) == \E i \in 1..Len(rows) : rows[i].concentration = Bad

Raises(exc) == [raised |-> TRUE, exc |-> exc, alerts |-> <<>>]
ReturnedAlerts(as) == [raised |-> FALSE, exc |-> "", alerts |-> as]

\* evaluate_permit, tidy branch: species_data["concentration"].to_numpy(dtype=float)
\* raises ValueError on the first permit species that has such a cell
RECURSIVE EvaluateFrom(_, _, _, _)
EvaluateFrom(limits, d, window, acc) ==
    IF limits = <<>> THEN ReturnedAlerts(acc)
    ELSE LET e == Head(limits)
             rows == RowsOf(d, e.sp)
         IN  IF rows = <<>> THEN EvaluateFrom(Tail(limits), d, window, acc)
             ELSE IF HasBad(rows) THEN Raises("ValueError")
             ELSE EvaluateFrom(Tail(limits), d, window,
                               acc \o EvalExceedance(rows, e.sp, e.limit)
                                   \o EvalTrend(rows, e.sp, e.limit, window))

\* Mutant of TrendFailure: the exception of the rolling mean is passed on.
TrendFailure_raises == "raise"

\* check_permit: `except Exception: pass` around the rolling mean check
TrendFailure == "pass"

\* check_permit: float(last["concentration"]) raises ValueError when the last
\* row of a permit species has such a cell; rolling(...).mean() raises on a
\* series that holds one anywhere, inside the try block
RECURSIVE CheckFrom(_, _, _, _)
CheckFrom(limits, d, window, acc) ==
    IF limits = <<>> THEN ReturnedAlerts(acc)
    ELSE LET e == Head(limits)
             rows == RowsOf(d, e.sp)
         IN  IF rows = <<>> THEN CheckFrom(Tail(limits), d, window, acc)
             ELSE IF Last(rows).concentration = Bad THEN Raises("ValueError")
             ELSE IF HasBad(rows)
             THEN IF TrendFailure = "pass"
                  THEN CheckFrom(Tail(limits), d, window,
                                 acc \o CheckExceedance(rows, e.sp, e.limit))
                  ELSE Raises("DataError")
             ELSE CheckFrom(Tail(limits), d, window,
                            acc \o CheckExceedance(rows, e.sp, e.limit)
                                \o CheckTrend(rows, e.sp, e.limit, window))

InitDirty ==
    /\ permit \in Permits
    /\ df \in DirtyFrames
    /\ alerts = <<>>
    /\ rule_pc = "input"
    /\ now = 1
    /\ RlIdle
    /\ AgentIdle
    /\ HubIdle
    /\ FnIdle
    /\ StreamIdle
    /\ ThreadsIdle

EvaluateDirty ==
    /\ rule_pc = "input"
    /\ LET r == EvaluateFrom(EvaluateLimits(permit), df, permit.rolling_window, <<>>)
       IN  /\ alerts' = r.alerts
           /\ rule_pc' = "evaluate_permit"
           /\ fcall' = [fn |-> "evaluate_permit", args |-> <<>>,
                        result |-> <<IF r.raised THEN r.exc ELSE "returned">>]
    /\ UNCHANGED <<permit, df, now, rlVars, agentVars, hubVars, streamVars, threadVars>>

CheckDirty ==
    /\ rule_pc = "input"
    /\ LET r == CheckFrom(CheckLimits(permit), df, permit.rolling_window, <<>>)
       IN  /\ alerts' = r.alerts
           /\ rule_pc' = "check_permit"
           /\ fcall' = [fn |-> "check_permit", args |-> <<>>,
                        result |-> <<IF r.raised THEN r.exc ELSE "returned">>]
    /\ UNCHANGED <<permit, df, now, rlVars, agentVars, hubVars, streamVars, threadVars>>

NextDirty == EvaluateDirty \/ CheckDirty

SpecDirty == InitDirty /\ [][NextDirty]_vars

\* The limits the function that ran takes from the permit.
LimitsUsed == IF rule_pc = "check_permit" THEN CheckLimits(permit) ELSE EvaluateLimits(permit)

\* Some reading of a species of these limits has a non-numeric concentration.
BadPermitReading ==
    \E i \in 1..Len(LimitsUsed) : HasBad(RowsOf(df, LimitsUsed[i].sp))

\* C24: if any reading of a permit species has a non-numeric concentration,
\* evaluate_permit and check_permit end with an error and not with a list of
\* alerts that passes over the bad row or the check it affects.
C24_FailFast ==
    (rule_pc \in {"evaluate_permit", "check_permit"} /\ BadPermitReading) =>
        fcall.result # <<"returned">>

(***************************************************************************)
(* The rule engine on the readings of the SO4 scenario                     *)
(***************************************************************************)
MaxScenarioLen == 4    \* readings in a frame: 0..MaxScenarioLen
ScenarioLimit == 250
ScenarioWindow == 3
ScenarioValues == {200, 205, 210, 280}

\* (0,SO4,200), (1,SO4,205), (2,SO4,210), (3,SO4,280)
ScenarioReadings ==
    [i \in 1..4 |-> [time |-> i - 1, species |-> "SO4",
                     concentration |-> <<200, 205, 210, 280>>[i]]]

ScenarioFrames ==
    {[i \in 1..Len(s) |-> [time |-> i - 1, species |-> "SO4", concentration |-> s[i]]] :
        s \in SeqUpTo(ScenarioValues, MaxScenarioLen)}

InitScenario ==
    /\ permit \in {[key |-> k, map |-> <<[sp |-> "SO4", limit |-> ScenarioLimit]>>,
                    rolling_window |-> ScenarioWindow] : k \in {"limits_mgL", "limits"}}
    /\ df \in ScenarioFrames
    /\ alerts = <<>>
    /\ rule_pc = "input"
    /\ now = 1
    /\ RlIdle
    /\ AgentIdle
    /\ HubIdle
    /\ FnIdle
    /\ StreamIdle
    /\ ThreadsIdle

SpecScenario == InitScenario /\ [][NextRules]_vars

\* The scenario was evaluated by a function that reads this permit's limits.
ScenarioEvaluated ==
    /\ df = ScenarioReadings
    /\ permit.key = "limits"
    /\ rule_pc \in {"evaluate_permit", "check_permit"}

IsExceedance(a) == a.message \in {"concentration", "instantaneous"}
IsTrend(a) == a.message = "rolling mean"

\* The mean of the last ScenarioWindow concentrations of the frame exceeds the limit.
WindowMeanExceeds ==
    /\ Len(df) >= ScenarioWindow
    /\ SumSeq(SubSeq(ConcOf(df), Len(df) - ScenarioWindow + 1, Len(df)))
          > ScenarioWindow * ScenarioLimit

\* C25 as stated: on the scenario the evaluation emits an exceedance alert with
\* value 280 whose level is watch, and a trend alert only if the mean of the
\* last 3 values exceeds 250.
C25_ScenarioWatch ==
    ScenarioEvaluated =>
        /\ \E i \in 1..Len(alerts) :
              /\ IsExceedance(alerts[i])
              /\ alerts[i].value = Frac(280, 1)
              /\ alerts[i].level = "watch"
        /\ (\E i \in 1..Len(alerts) : IsTrend(alerts[i])) => WindowMeanExceeds

\* C25 (amended): on the scenario the evaluation emits exactly one alert, the
\* exceedance alert with value 280 and limit 250, whose level is info from
\* evaluate_permit and warning from check_permit; on every frame of these
\* values a trend alert is emitted only if the mean of the last 3 values
\* exceeds 250, and the scenario's mean does not.
C25_ScenarioLevels ==
    /\ ScenarioEvaluated =>
          /\ Len(alerts) = 1
          /\ IsExceedance(alerts[1])
          /\ alerts[1].value = Frac(280, 1) /\ alerts[1].limit = ScenarioLimit
          /\ alerts[1].level = IF rule_pc = "evaluate_permit" THEN "info" ELSE "warning"
          /\ ~WindowMeanExceeds
    /\ (rule_pc # "input" /\ \E i \in 1..Len(alerts) : IsTrend(alerts[i]))
          => WindowMeanExceeds

C25_Witness ==
    /\ ScenarioEvaluated
    /\ rule_pc = "check_permit"
    /\ Len(alerts) = 1 /\ alerts[1].level = "warning" /\ alerts[1].time = 3

(***************************************************************************)
(* Further claims on the rate limiters (under SpecRL)                      *)
(***************************************************************************)
\* The calls of key k admitted at a time within [t1, t2].
AdmittedIn(k, t1, t2) ==
    Cardinality({i \in 1..Len(rl_log) :
                    rl_log[i].key = k /\ t1 <= rl_log[i].t /\ rl_log[i].t <= t2})

\* C26: for every key and every limit >= 1, the calls the fixed-window limiter
\* admits within any interval of one second, aligned to a window or not, never
\* exceed twice the limit.
C26_BurstAtMostTwice ==
    \A i \in 1..Len(rl_log), t \in 0..MaxTime :
        LimitFor(rl_log[i].key) >= 1 =>
            AdmittedIn(rl_log[i].key, t, t + OneSecond) <= 2 * LimitFor(rl_log[i].key)

C26_Witness ==
    \E i \in 1..Len(rl_log) :
        /\ LimitFor(rl_log[i].key) = 2
        /\ AdmittedIn(rl_log[i].key, 1, 1 + OneSecond) = 4
        /\ AdmittedIn(rl_log[i].key, 1, OneSecond) = 2

\* C27: a subscribe or unsubscribe that happens while a fan-out pass is
\* suspended in a send does not corrupt the pass: when the send returns the pass
\* goes on to the next subscriber or completes, no error is raised or counted
\* unless the send itself failed, and the sender's connection stays registered
\* with its receive loop running; the same for a pass of the cross-instance
\* subscriber task.
C27_PassSurvivesRegistryChange ==
    [][/\ \A c \in Conns :
             (handler[c].pc = "send" /\ handler'[c] # handler[c]) =>
                 /\ handler'[c].pc \in {"send", "recv", "publish"}
                 /\ Registered(c) => Registered(c)'
                 /\ sock[handler[c].target] = "open" => ws_errors_total' = ws_errors_total
       /\ (sub.pc = "send" /\ sub' # sub) =>
             /\ sub'.pc \in {"send", "listen"}
             /\ sock[sub.target] = "open" => ws_errors_total' = ws_errors_total]_vars

\* The coroutines suspended in `await ws.send_json(...)` on connection d.
SendsInProgress(d) ==
    Cardinality({c \in Conns : handler[c].pc = "send" /\ handler[c].target = d})
        + (IF sub.pc = "send" /\ sub.target = d THEN 1 ELSE 0)

\* C28: at no time are two sends in progress on the same subscriber
\* connection, whether issued by the receive loops of different senders or by
\* the cross-instance subscriber task.
C28_OneSendPerConnection == \A d \in Conns : SendsInProgress(d) <= 1

(***************************************************************************)
(* Further claims on the breaker of the advice client (under SpecAgent)    *)
(***************************************************************************)
\* The failures recorded within the trailing breaker window at time t.
FailuresInWindow(t) ==
    Cardinality({i \in 1..Len(fail_log) : t - fail_log[i] <= BreakerWindow})

\* C29: at the moment of every upstream attempt, the first of a call and every
\* retry, fewer than breaker_threshold failures lie within the trailing window:
\* no call is attempted while the breaker is open.
C29_NoAttemptWhileOpen ==
    adv.pc = "calling" => FailuresInWindow(now) < agent.breaker_threshold

(***************************************************************************)
(* One OpenAIAdviceAgent shared by concurrent callers: the steps of        *)
(* _breaker_open and _record_failure, interleaved between threads          *)
(***************************************************************************)
MaxRecords == 2        \* failures recorded in one run

sharedFrame == <<agent, cache, adv, succ, ruleVars, rlVars, hubVars, fnVars, streamVars>>

InitShared ==
    /\ now = 1
    /\ agent \in [max_retries : {1}, breaker_threshold : 1..MaxThreshold, cache_db : {"none"}]
    /\ failures = <<>>
    /\ cache = <<>>
    /\ adv = NoAdvise
    /\ fail_log = <<>>
    /\ succ = <<>>
    /\ thr = [t \in Threads |-> NoThread]
    /\ RulesIdle
    /\ RlIdle
    /\ HubIdle
    /\ FnIdle
    /\ StreamIdle

\* _breaker_open: now = time.time() and the list comprehension over
\* self._failures, its result held by the thread
BreakerFilter(t) ==
    /\ thr[t].pc = "idle"
    /\ thr' = [thr EXCEPT ![t] = [pc |-> "filtered", stale |-> FALSE,
                                  kept |-> _breaker_open(failures, now,
                                                         agent.breaker_threshold).failures]]
    /\ UNCHANGED <<now, failures, fail_log, sharedFrame>>

\* _breaker_open: self._failures = <the new list>; a thread that has loaded the
\* old list object now holds a list the agent no longer refers to
BreakerStore(t) ==
    /\ thr[t].pc = "filtered"
    /\ failures' = thr[t].kept
    /\ thr' = [u \in Threads |->
                  IF u = t THEN NoThread
                  ELSE IF thr[u].pc = "loaded" THEN [thr[u] EXCEPT !.stale = TRUE]
                  ELSE thr[u]]
    /\ UNCHANGED <<now, fail_log, sharedFrame>>

\* _record_failure: self._failures is loaded, the argument of append not yet
\* evaluated
RecordLoad(t) ==
    /\ thr[t].pc = "idle"
    /\ Len(fail_log) + Cardinality({u \in Threads : thr[u].pc = "loaded"}) < MaxRecords
    /\ thr' = [thr EXCEPT ![t] = [pc |-> "loaded", kept |-> <<>>, stale |-> FALSE]]
    /\ UNCHANGED <<now, failures, fail_log, sharedFrame>>

\* _record_failure: <the loaded list>.append(time.time())
RecordAppend(t) ==
    /\ thr[t].pc = "loaded"
    /\ fail_log' = Append(fail_log, now)
    /\ failures' = IF thr[t].stale THEN failures ELSE Append(failures, now)
    /\ thr' = [thr EXCEPT ![t] = NoThread]
    /\ UNCHANGED <<now, sharedFrame>>

\* time passes
TickShared ==
    /\ now < MaxIdle
    /\ now' = now + 1
    /\ UNCHANGED <<failures, fail_log, thr, sharedFrame>>

NextShared ==
    \/ \E t \in Threads : BreakerFilter(t)
    \/ \E t \in Threads : BreakerStore(t)
    \/ \E t \in Threads : RecordLoad(t)
    \/ \E t \in Threads : RecordAppend(t)
    \/ TickShared

SpecShared == InitShared /\ [][NextShared]_vars

\* C30: with one agent shared by concurrent callers, under every interleaving
\* of _breaker_open and _record_failure every failure recorded within the
\* window is still counted: once the calls in progress have returned, the
\* agent's list holds every recorded failure that lies within the window.
C30_NoFailureLost ==
    (\A t \in Threads : thr[t].pc = "idle") =>
        \A i \in 1..Len(fail_log) :
            now - fail_log[i] <= BreakerWindow =>
                Count(failures, fail_log[i]) >= Count(fail_log, fail_log[i])

(***************************************************************************)
(* Order of one sender's messages (under SpecHub)                          *)
(***************************************************************************)
\* The records of sender c in the list s, in the order they stand in s.
FromSender(s, c) == SelectSeq(s, LAMBDA r : r.from = c)

\* The numbers of the records of s rise: n is the arrival number of a message.
InArrivalOrder(s) == \A i, j \in 1..Len(s) : i < j => s[i].n < s[j].n

\* The last message received on connection c.
LastReceived(c) ==
    LET mine == FromSender([i \in 1..Len(recv_log) |-> recv_log[i].data], c)
    IN  mine[Len(mine)]

AttemptStep == adv.pc = "calling" /\ adv'.n = adv.n /\ adv'.attempt = adv.attempt + 1

\* The attempt of this step succeeded: advise returns the response.
AttemptSucceeds == adv'.pc = "idle" /\ adv'.how = "ok"

\* The failed attempts of the call so far.
FailedAttempts ==
    IF adv.how = "ok" THEN adv.attempt - 1 ELSE adv.attempt

C32_State ==
    (adv.how \in {"none", "ok", "failed"} /\ adv.attempt >= 1) =>
        /\ Len(failures) >= FailedAttempts
        /\ \A i \in 1..FailedAttempts :
              failures[Len(failures) - FailedAttempts + i]
                  = fail_log[Len(fail_log) - FailedAttempts + i]

C32_Action ==
    /\ (AttemptStep /\ ~AttemptSucceeds) => failures' = Append(failures, now)
    /\ (AttemptStep /\ AttemptSucceeds) => failures' = failures
    /\ ~AttemptStep =>
          /\ Len(failures') <= Len(failures)
          /\ \A i \in 1..Len(failures') : \E j \in 1..Len(failures) : failures'[i] = failures[j]
    /\ (~AttemptStep /\ adv'.how = "cache_hit") => failures' = failures

\* C32: a failed upstream attempt appends one timestamp, the time of the
\* failure, to the failure list, and a successful attempt appends none; every
\* other step of advise (the cache hit, the breaker check with its short-circuit,
\* the backoff, the return after the last failed attempt) appends none, and a
\* cache hit leaves the list as it is.  So a call with k failed attempts has
\* appended exactly k timestamps.
C32_OnePerFailedAttempt == [](C32_State) /\ [][C32_Action]_vars

C32_Witness ==
    /\ Returned /\ adv.how = "failed" /\ adv.attempt = 2
    /\ Len(failures) = 3
    /\ failures[2] < failures[3]

(***************************************************************************)
(* What is written to the cache (under SpecAgent)                          *)
(***************************************************************************)
Degraded == {CircuitOpenResponse, FailedResponse}

C33_State ==
    /\ \A k \in DOMAIN cache :
          /\ k[2] \in DOMAIN succ
          /\ JsonLoads(cache[k]) = succ[k[2]]
          /\ JsonLoads(cache[k]) \notin Degraded
    /\ (Returned /\ adv.result \in Degraded) =>
          (adv.how \in {"circuit_open", "failed"} /\ adv.key \notin DOMAIN cache)

C33_Action ==
    /\ cache' # cache =>
          /\ AttemptStep /\ AttemptSucceeds
          /\ adv.key \in DOMAIN cache'
          /\ JsonLoads(cache'[adv.key]) = adv'.result
          /\ \A k \in DOMAIN cache : k # adv.key => (k \in DOMAIN cache' /\ cache'[k] = cache[k])
    /\ (adv'.n = adv.n + 1 /\ adv'.key \notin DOMAIN cache) =>
          (adv'.how # "cache_hit" /\ (~adv'.open => adv'.pc = "calling"))

\* C33: the cache is written only by a successful upstream attempt, with the
\* response that attempt returns; the degraded responses (circuit open, retries
\* exhausted) are never in the cache, and after a call returned one the cache
\* has no entry for its payload, so the next call with that payload misses the
\* cache and, unless the breaker is open, attempts the upstream.
C33_OnlySuccessIsCached == [](C33_State) /\ [][C33_Action]_vars

C33_Witness ==
    /\ agent.cache_db = "ok"
    /\ Returned /\ adv.how = "ok" /\ adv.n = 3 /\ ~adv.had
    /\ DOMAIN cache = {adv.key}
    /\ Len(fail_log) >= 2 /\ agent.breaker_threshold = 2

(***************************************************************************)
(* Cache before breaker (under SpecAgent)                                  *)
(***************************************************************************)
\* The step is the start of an advise call.
CallStarts == adv.pc = "idle" /\ adv'.n = adv.n + 1

\* C34: an advise call whose payload is in the cache returns the cached
\* response at once, with no upstream attempt, whether or not the breaker is
\* open, and leaves the failure list (which the breaker check would prune) and
\* the cache unchanged.
C34_CacheBeforeBreaker ==
    [][(CallStarts /\ adv'.key \in DOMAIN cache) =>
          /\ adv'.pc = "idle" /\ adv'.how = "cache_hit" /\ adv'.attempt = 0
          /\ adv'.result = JsonLoads(cache[adv'.key])
          /\ failures' = failures
          /\ cache' = cache /\ fail_log' = fail_log]_vars

C34_Witness ==
    /\ Returned /\ adv.how = "cache_hit" /\ adv.open
    /\ Len(failures) >= agent.breaker_threshold
    /\ \E i \in 1..Len(failures) : now - failures[i] > BreakerWindow

(***************************************************************************)
(* Successes and the failure window (under SpecAgent)                      *)
(***************************************************************************)
C35_State ==
    /\ \A i \in 1..Len(fail_log) :
          now - fail_log[i] <= BreakerWindow =>
              Count(failures, fail_log[i]) = Count(fail_log, fail_log[i])
    /\ (Returned /\ adv.how = "circuit_open") => adv.open

C35_Action ==
    /\ (AttemptStep /\ AttemptSucceeds) => (failures' = failures /\ fail_log' = fail_log)
    /\ (CallStarts /\ adv'.how # "cache_hit"
          /\ FailuresInWindow(now) >= agent.breaker_threshold) =>
              (adv'.how = "circuit_open" /\ adv'.pc = "idle")

\* C35: a successful attempt leaves the failure list as it is; every failure
\* recorded within the trailing window is on the list whatever successes came
\* after it, and a call that misses the cache while breaker_threshold failures
\* lie within the window is short-circuited, successes between the failures or
\* not.
C35_SuccessKeepsFailures == [](C35_State) /\ [][C35_Action]_vars

C35_Witness ==
    /\ Returned /\ adv.how = "circuit_open" /\ adv.n = 3
    /\ agent.breaker_threshold = 2 /\ Len(fail_log) = 2
    /\ Cardinality(DOMAIN succ) = 2

(***************************************************************************)
(* The two limiters side by side: one HTTP key and one connection get the  *)
(* same limit and are called at the same times.                            *)
(***************************************************************************)
MaxPairTime == 6    \* the clock of the paired run stops here

PairKey == RlKey("10.0.0.1", "/api/status")
PairConn == "c1"

InitPair ==
    /\ now = 1
    /\ api_token = ""
    /\ rl_per_sec \in 0..MaxLimit
    /\ ws_msgs_per_sec = rl_per_sec
    /\ rl_state = <<>>
    /\ rl_win = [c \in Conns |-> [start |-> 0, cnt |-> 0]]
    /\ rl_last = NoCall
    /\ rl_admitted = <<>>
    /\ rl_log = <<>>
    /\ fcall = [result |-> <<>>, fn |-> "none", args |-> <<>>]
    /\ RulesIdle
    /\ AgentIdle
    /\ HubIdle
    /\ StreamIdle
    /\ ThreadsIdle

\* One request through the limiter of add_security_headers and one message
\* through the limiter of websocket_effluent, at the same time.
PairCall ==
    /\ rl_last.count < MaxCalls
    /\ LET h == HttpRateLimit(rl_state, PairKey, now, rl_per_sec)
           w == WsRateLimit(rl_win[PairConn], now, ws_msgs_per_sec)
       IN  /\ rl_state' = h.state
           /\ rl_win' = [rl_win EXCEPT ![PairConn] = w.win]
           /\ rl_last' = [kind |-> "http", key |-> PairKey,
                          status |-> IF h.admit THEN 200 ELSE 429,
                          fresh |-> HttpNewWindow(rl_state, PairKey, now),
                          count |-> rl_last.count + 1]
           /\ fcall' = [fn |-> "ws_limiter", args |-> <<PairConn, now>>,
                        result |-> <<IF w.admit THEN 200 ELSE 429>>]
    /\ UNCHANGED <<now, api_token, rl_per_sec, ws_msgs_per_sec, rl_admitted, rl_log,
                   ruleVars, agentVars, hubVars, streamVars, threadVars>>

\* time passes
TickPair ==
    /\ now < MaxPairTime
    /\ now' = now + 1
    /\ UNCHANGED <<rlVars, ruleVars, agentVars, hubVars, fnVars, streamVars, threadVars>>

NextPair == PairCall \/ TickPair

SpecPair == InitPair /\ [][NextPair]_vars

\* C36: called with the same limit at the same times, the limiter of the HTTP
\* middleware and the limiter of a WebSocket connection give the same verdict
\* on every call.
C36_SameVerdict ==
    fcall.fn = "ws_limiter" => rl_last.status = fcall.result[1]

\* The same for limits of 1 and more.
C36_SameVerdictFromOne ==
    (rl_per_sec >= 1 /\ fcall.fn = "ws_limiter") => rl_last.status = fcall.result[1]

(***************************************************************************)
(* /ws/alerts: websocket_alerts of build_app, and the two WebSocket        *)
(* endpoints before clients with and without the token                     *)
(***************************************************************************)
MaxAlertMsgs == 1      \* messages one /ws/alerts connection sends in one run

alertsFrame == <<now, ruleVars, rlVars, agentVars, hubVars, fnVars, threadVars, subs, squeue,
                 shandler, ssock, spublished>>

\* websocket_alerts up to its first receive: `await websocket.accept()`; the
\* handler reads neither OW_SC_API_TOKEN nor the authorization header
AlertsConnect(c, auth) ==
    /\ alerts_ws[c].pc = "new"
    /\ alerts_ws' = [alerts_ws EXCEPT ![c].pc = "recv"]
    /\ UNCHANGED alertsFrame

\* websocket_alerts: one pass of the loop, receive_json and the send of the response
AlertsMessage(c) ==
    /\ alerts_ws[c].pc = "recv"
    /\ alerts_ws[c].answered < MaxAlertMsgs
    /\ alerts_ws' = [alerts_ws EXCEPT ![c].answered = @ + 1]
    /\ UNCHANGED alertsFrame

\* websocket_alerts: receive_json raises WebSocketDisconnect
AlertsDisconnect(c) ==
    /\ alerts_ws[c].pc = "recv"
    /\ alerts_ws' = [alerts_ws EXCEPT ![c].pc = "done"]
    /\ UNCHANGED alertsFrame

\* The client of connection c2 does not have the token; the others have it.
NoTokenClient == "c2"

\* The authorization headers the client of connection c presents.
Presents(c) ==
    IF c = NoTokenClient
    THEN {a \in AuthHeaders : ~CarriesToken(a, api_token)}
    ELSE {a \in AuthHeaders : CarriesToken(a, api_token)}

InitWsAuth ==
    /\ InitHub
    /\ redis = "none"
    /\ max_buffer = MaxBuffer

NextWsAuth ==
    \/ \E c \in Conns : \E auth \in Presents(c) : Connect(c, auth)
    \/ \E c \in Conns, size \in Sizes : Receive(c, size)
    \/ \E c \in Conns : SendDone(c)
    \/ \E c \in Conns : ClientClose(c)
    \/ \E c \in Conns : HandlerDisconnect(c)
    \/ \E c \in Conns : \E auth \in Presents(c) : AlertsConnect(c, auth)
    \/ \E c \in Conns : AlertsMessage(c)
    \/ \E c \in Conns : AlertsDisconnect(c)

SpecWsAuth == InitWsAuth /\ [][NextWsAuth]_vars

\* /ws/effluent: the client without the token is never registered and none of
\* its messages is received.
C37_EffluentNeedsToken ==
    api_token # "" =>
        /\ ~Registered(NoTokenClient)
        /\ handler[NoTokenClient].pc \in {"new", "refused"}
        /\ \A i \in 1..Len(recv_log) : recv_log[i].data.from # NoTokenClient

\* C37: with an API token configured, neither /ws/effluent nor /ws/alerts
\* accepts a connection of the client without the token, or handles a message
\* of it.
C37_WsNeedsToken ==
    /\ C37_EffluentNeedsToken
    /\ api_token # "" =>
          (alerts_ws[NoTokenClient].pc = "new" /\ alerts_ws[NoTokenClient].answered = 0)

(***************************************************************************)
(* Records of other instances and the buffer (under SpecHub)               *)
(***************************************************************************)
StreamsPage == 100     \* get_streams returns buffer[-100:]

\* get_streams: the body of the /api/streams response
get_streams(buf) == [count |-> Len(buf), data |-> PyLastSlice(buf, StreamsPage)]

\* The step is one of the subscriber task: it takes a message from the channel,
\* or a send of its fan-out returns.
SubscriberStep == sub' # sub \/ (sub.pc = "listen" /\ Len(channel') < Len(channel))

C38_State ==
    /\ \A i \in 1..Len(buffer) :
          buffer[i].from \in Conns /\ buffer[i] \in Range(AcceptedRecords)
    /\ \A r \in Range(get_streams(buffer).data) : r.from \in Conns
    /\ get_streams(buffer).count = Len(buffer)

\* C38: a step of the subscriber task leaves the buffer unchanged; the buffer,
\* and with it the data of /api/streams, holds only records accepted on the
\* instance's own connections, never a record of another instance, although
\* such records are sent to the local connections.
C38_RemoteNotBuffered == [](C38_State) /\ [][SubscriberStep => buffer' = buffer]_vars

C38_Witness ==
    /\ \E c \in HubConns : \E i \in 1..Len(outbox[c]) : outbox[c][i].from = "remote"
    /\ buffer # <<>>
    /\ sub.pc = "listen" /\ channel = <<>>

(***************************************************************************)
(* The two strategies side by side (under SpecRules)                       *)
(***************************************************************************)
\* What an alert is about: the species, the check that raised it, the value
\* (compared as a fraction) and the limit.  check_permit names the check in the
\* message only.
AlertKind(a) == IF a.message \in {"concentration", "instantaneous"} THEN "exceedance"
                ELSE "trend"

Subject(a) ==
    [species |-> a.species, kind |-> AlertKind(a), limit |-> a.limit,
     value |-> IF a.value.num % a.value.den = 0 THEN Frac(a.value.num \div a.value.den, 1)
               ELSE a.value]

Subjects(as) == [i \in 1..Len(as) |-> Subject(as[i])]

\* The species of the alerts follow the order of the limit map, and within a
\* species the exceedance comes first.
InPermitOrder(subj, limits) ==
    \A i, j \in 1..Len(subj) :
        i < j =>
            \E m, n \in 1..Len(limits) :
                /\ limits[m].sp = subj[i].species /\ limits[n].sp = subj[j].species
                /\ m <= n
                /\ m = n => (subj[i].kind = "exceedance" /\ subj[j].kind = "trend")

\* C39: for a permit that carries its limits under `limits`, the alerts of
\* check_permit and of evaluate_permit on the same readings are about the same
\* (species, check, value, limit), in the same order: the order of the species
\* in the permit, exceedance before trend.
C39_SameSubjects ==
    (permit.key = "limits" /\ rule_pc # "input") =>
        /\ rule_pc = "evaluate_permit" =>
              Subjects(alerts) = Subjects(check_permit(df, permit))
        /\ rule_pc = "check_permit" =>
              Subjects(alerts) = Subjects(evaluate_permit(df, permit))
        /\ InPermitOrder(Subjects(alerts), permit.map)

C39_Witness ==
    /\ permit.key = "limits" /\ rule_pc = "check_permit"
    /\ permit.rolling_window = 2 /\ Len(permit.map) = 2
    /\ Len(alerts) = 2
    /\ AlertKind(alerts[1]) = "trend" /\ alerts[1].value.num % 2 = 1
    /\ AlertKind(alerts[2]) = "exceedance" /\ alerts[1].species # alerts[2].species

(***************************************************************************)
(* StreamBroadcaster with several subscribers, one of them slow            *)
(***************************************************************************)
Subscribers == {"c1", "c2"}

InitStream ==
    /\ now = 1
    /\ RulesIdle
    /\ RlIdle
    /\ AgentIdle
    /\ HubIdle
    /\ FnIdle
    /\ StreamIdle
    /\ ThreadsIdle

\* StreamBroadcaster.unsubscribe(q), called for any queue at any time
StreamUnsubscribe(c) ==
    /\ subs' = unsubscribe(subs, c)
    /\ UNCHANGED <<squeue, shandler, ssock, spublished, streamFrame>>

NextStream ==
    \/ \E c \in Subscribers : StreamAccept(c)
    \/ StreamPublish
    \/ \E c \in Subscribers : StreamGet(c)
    \/ \E c \in Subscribers, how \in SendToClosed : StreamSendDone(c, how)
    \/ \E c \in Subscribers : StreamClientClose(c)
    \/ \E c \in Subscribers : StreamUnsubscribe(c)

SpecStream == InitStream /\ [][NextStream]_vars

\* The items of the sequence s rise: an item is its number in publish order.
Rising(s) == \A i, j \in 1..Len(s) : i < j => s[i] < s[j]

C40_State ==
    /\ \A c \in Conns : Len(squeue[c]) <= QueueMaxSize
    /\ \A c \in Conns :
          /\ Rising(squeue[c])
          /\ \A i \in 1..Len(squeue[c]) :
                shandler[c].item < squeue[c][i] /\ squeue[c][i] <= spublished
    /\ \A c \in Conns \ subs : unsubscribe(subs, c) = subs
    /\ spublished < MaxItems => ENABLED StreamPublish

C40_Action ==
    /\ spublished' = spublished + 1 =>
          /\ \A c \in Conns :
                squeue'[c] = IF c \in subs /\ Len(squeue[c]) < QueueMaxSize
                             THEN Append(squeue[c], spublished')
                             ELSE squeue[c]
          /\ subs' = subs
    /\ \A c \in Conns :
          (shandler'[c].pc = "send" /\ shandler[c].pc = "get") =>
              (shandler'[c].item = Head(squeue[c]) /\ squeue'[c] = Tail(squeue[c]))
    /\ subs' # subs => squeue' = squeue

=============================================================================
